---- MODULE Spec2Model ----
(***************************************************************************)
(* Model of the toon-in lip-sync pipeline: the phoneme mapper, the viseme  *)
(* mapper and the timeline compositors (MouthAnimation of 9_dylan_norris   *)
(* and 9_bear_animation) with their sequential and threaded video export.  *)
(*                                                                         *)
(* Compositor times are integers (ticks).  Word and phoneme times are      *)
(* exact rationals <<numerator, denominator>>: Python's float division is  *)
(* modelled as exact division, so rounding error is outside the model.     *)
(***************************************************************************)
EXTENDS Integers, Sequences, FiniteSets, TLC

VARIABLES
    character,        \* which compositor script the session runs
    animation_data,   \* MouthAnimation.animation_data (the viseme track)
    pose_doc,         \* the pose/emotion JSON document given to the bear
    pose_data,        \* MouthAnimation.pose_data as load_pose_data left it
    now,              \* current_time of the last query / frame
    lookup,           \* what the last query / draw_frame selected
    fps,              \* frame rate of the render session
    morph_duration,   \* MouthAnimation.morph_duration, in ticks
    seed,             \* the session's random stream: the k-th uniform() draw
    inst,             \* two runs of one MouthAnimation session (render state)
    num_threads,      \* export_video_threaded's num_threads
    audio_length,     \* MouthAnimation.audio_length, in ticks (0: no audio)
    phase,            \* position of export_video_threaded
    seq_video,        \* frames export_video wrote, in writing order
    workers,          \* process_chunk's per-thread state, by thread id
    files,            \* temp_dir: frame file name -> [index, frame]
    video,            \* frames export_video_threaded wrote, in writing order
    outputs,          \* what each export left on disk and reported
    word_data,        \* the word track given to the phoneme mapper
    cmu_dict,         \* the pronunciation dictionary, as <<key, phonemes>> items
    phoneme_data,     \* result of map_words_to_phonemes
    unmatched_words,  \* its diagnostic list
    viseme_data,      \* result of map_phonemes_to_visemes
    viseme_rerun,     \* result of running map_phonemes_to_visemes again
    pc,               \* position of the mapping stages
    emotion_file,     \* the output file of save_emotion_data
    runs,             \* the save_emotion_data runs, by run number
    save_log,         \* the file operations of the runs, in order
    blink_rig,        \* which script computes the blink schedule
    total_duration,   \* its total_duration, in tenths of a second
    sched_time,       \* current_time of the schedule loop
    blinks,           \* the blink windows computed so far
    sched_pc,         \* position of the schedule loop
    blink_state,      \* a BlinkState object
    blink_hist,       \* the frames update returned since the last blink began
    blink_calls,      \* how many times update was called
    pipe_pc,          \* position of run_animation_pipeline
    docs,             \* the files of the run: name -> what wrote it last
    stages,           \* the scripts the pipeline has run, in order
    reads,            \* what each script found in the files it reads
    asr,              \* how the speech-recognition model behaves in this run
    wd_pc,            \* position of 2_create-word-data's main
    wd_track,         \* its local word_data
    wd_files,         \* what it wrote to output_path and to the fallback path
    wd_status,        \* its exit status
    rig_env,          \* the loader, the pygame build and the image files on disk
    rig_pc,           \* how many entries of the load list have been handled
    rig_images,       \* the images loaded so far, by file name
    rig_error,        \* the exception that ended the loading, if any
    par_env,          \* the parallel renderer and its total_frames
    par_done,         \* the frame numbers whose render future has completed
    par_saved,        \* par_saved[k]: the frame number saved as frame_<k - 1>
    par_video,        \* the frame numbers of the encoded video, in order
    pr_env,           \* the pose renderer and its pose_data
    pr_state,         \* frame number, last_active_pose, last_active_pose_folder
    pr_frames,        \* what each frame drew: pose, viseme folder, active entry
    pd_env,           \* the transcript and words_timing given to 7_pose_data
    pd_pc,            \* position of its main block
    pd_pose_data,     \* result of parse_transcript_with_poses
    pd_file,          \* data/pose_data.json as save_pose_data left it
    pv_env,           \* the viseme track and audio length of a preview
    pv_clock,         \* time.time() of the preview, in ticks
    pv_loop,          \* locals of preview_animation and self.start_time
    pv_inst,          \* morph and blink state of the previewing instance
    pv_mouth          \* the mouth the last draw_frame of the preview drew

(***************************************************************************)
(* Bounds of the compositor lookup model                                   *)
(***************************************************************************)
MaxTrackLen == 2
MaxPoseLen == 2
MaxTime == 2

Range(s) == {s[i] : i \in DOMAIN s}

SeqsUpTo(S, n) == UNION {[1..k -> S] : k \in 0..n}

(***************************************************************************)
(* Track lookups of the compositors                                        *)
(***************************************************************************)
\* the window test `start <= current_time <= end` shared by the lookups
InWindow(start, end, t) == start <= t /\ t <= end

RECURSIVE DylanScan(_, _, _)
DylanScan(data, i, t) ==
    IF i > Len(data) THEN "neutral.png"
    ELSE IF InWindow(data[i].start_time, data[i].end_time, t)
         THEN data[i].viseme
         ELSE DylanScan(data, i + 1, t)

\* 9_dylan_norris.py MouthAnimation.get_current_viseme
DylanGetCurrentViseme(data, t) == DylanScan(data, 1, t)

RECURSIVE BearVisemeScan(_, _, _)
BearVisemeScan(data, i, t) ==
    IF i > Len(data) THEN "None"
    ELSE IF InWindow(data[i].start_time, data[i].end_time, t)
         THEN data[i].mouth_shape
         ELSE BearVisemeScan(data, i + 1, t)

\* 9_bear_animation.py MouthAnimation.get_current_viseme (None when no match)
BearGetCurrentViseme(data, t) == BearVisemeScan(data, 1, t)

\* os.path.basename of a path kept as the tuple of its components
Basename(path) == path[Len(path)]

\* 9_bear_animation.py MouthAnimation.load_pose_data: only brow poses are kept
LoadPoseData(doc) == SelectSeq(doc, LAMBDA pose : pose.pose_folder = "brows")

RECURSIVE BrowScan(_, _, _)
BrowScan(data, i, t) ==
    IF i > Len(data) THEN "neutral.png"
    ELSE IF InWindow(data[i].pose_start_time, data[i].pose_end_time, t)
         THEN Basename(data[i].pose_image)
         ELSE BrowScan(data, i + 1, t)

\* 9_bear_animation.py MouthAnimation.get_current_brow
GetCurrentBrow(data, t) == BrowScan(data, 1, t)

RECURSIVE EmotionScan(_, _, _)
EmotionScan(data, i, t) ==
    IF i > Len(data) THEN "neutral.png"
    ELSE IF data[i].pose_folder = "emotions"
            /\ InWindow(data[i].pose_start_time, data[i].pose_end_time, t)
         THEN Basename(data[i].pose_image)
         ELSE EmotionScan(data, i + 1, t)

\* 9_bear_animation.py MouthAnimation.get_current_emotion (scans self.pose_data)
GetCurrentEmotion(data, t) == EmotionScan(data, 1, t)

\* file names of load_viseme_images / load_brow_images / load_emotion_images
BearVisemeFiles ==
    {"aei.png", "bmp.png", "cdgknstxyz.png", "ee.png", "fv.png", "l.png",
     "o.png", "qw.png", "r.png", "s.png", "shch.png", "th.png", "uw.png",
     "neutral.png"}

BrowFiles == {"angry.png", "neutral.png", "quirked.png", "worried.png"}

EmotionFiles ==
    {"neutral.png", "cringe.png", "frown.png", "mockery.png", "sad.png",
     "smile_2.png", "smile.png"}

\* the mouth layer of 9_bear_animation.py draw_frame: viseme if given and
\* loaded, else the emotion image
BearMouthLayer(viseme_filename, current_emotion) ==
    IF viseme_filename # "None" /\ viseme_filename \in BearVisemeFiles
    THEN [layer |-> "viseme", image |-> viseme_filename]
    ELSE [layer |-> "emotion", image |-> current_emotion]

\* the brow layer of draw_frame: drawn only when the image is loaded
BearBrowLayer(current_brow) ==
    IF current_brow \in BrowFiles THEN current_brow ELSE "None"

(***************************************************************************)
(* Inputs of the lookup model                                              *)
(***************************************************************************)
Times == 0..MaxTime

DylanEvents ==
    {[viseme |-> v, start_time |-> s, end_time |-> e] :
        v \in {"aei.png", "o.png"}, s \in Times, e \in Times}

BearEvents ==
    {[mouth_shape |-> v, start_time |-> s, end_time |-> e] :
        v \in {"aei.png", "neutral.png"}, s \in Times, e \in Times}

PoseEntries ==
    {[pose_folder |-> "brows", pose_image |-> <<"brows", "angry.png">>,
      pose_start_time |-> w[1], pose_end_time |-> w[2]] :
        w \in {<<0, 1>>, <<1, 2>>}}
    \cup
    {[pose_folder |-> "emotions", pose_image |-> <<"emotions", "smile.png">>,
      pose_start_time |-> w[1], pose_end_time |-> w[2]] :
        w \in {<<0, 1>>, <<1, 2>>}}

\* the tracks given to the lookups: events of positive length, in any order
WellFormed(track) == \A i \in DOMAIN track : track[i].start_time < track[i].end_time

NoLookup == [op |-> "none"]

lookupVars == <<character, animation_data, pose_doc, pose_data, now, lookup>>
renderVars == <<fps, morph_duration, seed, inst>>
exportVars == <<num_threads, audio_length, phase, seq_video, workers, files, video,
                outputs>>
mapperVars == <<word_data, cmu_dict, phoneme_data, unmatched_words, viseme_data,
                viseme_rerun, pc>>
saveVars == <<emotion_file, runs, save_log>>
scheduleVars == <<blink_rig, total_duration, sched_time, blinks, sched_pc>>
blinkVars == <<blink_state, blink_hist, blink_calls>>
pipelineVars == <<pipe_pc, docs, stages, reads>>
wordDataVars == <<asr, wd_pc, wd_track, wd_files, wd_status>>
rigVars == <<rig_env, rig_pc, rig_images, rig_error>>
parallelVars == <<par_env, par_done, par_saved, par_video>>
poseRenderVars == <<pr_env, pr_state, pr_frames>>
poseDataVars == <<pd_env, pd_pc, pd_pose_data, pd_file>>
previewVars == <<pv_env, pv_clock, pv_loop, pv_inst, pv_mouth>>
toolVars ==
    <<wordDataVars, rigVars, parallelVars, poseRenderVars, poseDataVars, previewVars>>
stageVars == <<saveVars, scheduleVars, blinkVars, pipelineVars, toolVars>>
vars == <<lookupVars, renderVars, exportVars, mapperVars, stageVars>>
coreVars == <<lookupVars, renderVars, exportVars, mapperVars, saveVars, scheduleVars,
              blinkVars, pipelineVars>>

\* the parts of the state a specification does not use stay at these values
RenderIdle == fps = 0 /\ morph_duration = 0 /\ seed = <<>> /\ inst = <<>>
ExportIdle ==
    /\ num_threads = 0 /\ audio_length = 0 /\ phase = "idle" /\ seq_video = <<>>
    /\ workers = <<>> /\ files = <<>> /\ video = <<>> /\ outputs = <<>>
MapperIdle ==
    /\ word_data = <<>> /\ cmu_dict = <<>> /\ phoneme_data = <<>>
    /\ unmatched_words = <<>> /\ viseme_data = <<>> /\ viseme_rerun = <<>>
    /\ pc = "idle"
SaveIdle == emotion_file = <<>> /\ runs = <<>> /\ save_log = <<>>
ScheduleIdle ==
    /\ blink_rig = "none" /\ total_duration = 0 /\ sched_time = 0
    /\ blinks = <<>> /\ sched_pc = "idle"
BlinkIdle == blink_state = <<>> /\ blink_hist = <<>> /\ blink_calls = 0
PipelineIdle == pipe_pc = "idle" /\ docs = <<>> /\ stages = <<>> /\ reads = {}
WordDataIdle ==
    /\ asr = <<>> /\ wd_pc = "idle" /\ wd_track = <<>> /\ wd_files = <<>>
    /\ wd_status = 0
RigIdle == rig_env = <<>> /\ rig_pc = 0 /\ rig_images = <<>> /\ rig_error = "none"
ParallelIdle == par_env = <<>> /\ par_done = {} /\ par_saved = <<>> /\ par_video = <<>>
PoseRenderIdle == pr_env = <<>> /\ pr_state = <<>> /\ pr_frames = <<>>
PoseDataIdle ==
    pd_env = <<>> /\ pd_pc = "idle" /\ pd_pose_data = <<>> /\ pd_file = <<>>
PreviewIdle ==
    /\ pv_env = <<>> /\ pv_clock = 0 /\ pv_loop = <<>> /\ pv_inst = <<>>
    /\ pv_mouth = <<>>
ToolIdle ==
    /\ WordDataIdle /\ RigIdle /\ ParallelIdle /\ PoseRenderIdle /\ PoseDataIdle
    /\ PreviewIdle
StageIdle == SaveIdle /\ ScheduleIdle /\ BlinkIdle /\ PipelineIdle /\ ToolIdle
LookupIdle ==
    /\ character = "none" /\ animation_data = <<>> /\ pose_doc = <<>>
    /\ pose_data = <<>> /\ now = 0 /\ lookup = NoLookup
CoreIdle ==
    /\ LookupIdle /\ RenderIdle /\ ExportIdle /\ MapperIdle /\ SaveIdle
    /\ ScheduleIdle /\ BlinkIdle /\ PipelineIdle

InitLookup ==
    /\ character \in {"dylan", "bear"}
    /\ animation_data \in
         IF character = "dylan"
         THEN {tr \in SeqsUpTo(DylanEvents, MaxTrackLen) : WellFormed(tr)}
         ELSE {tr \in SeqsUpTo(BearEvents, MaxTrackLen) : WellFormed(tr)}
    /\ pose_doc \in
         IF character = "dylan" THEN {<<>>} ELSE SeqsUpTo(PoseEntries, MaxPoseLen)
    /\ pose_data = LoadPoseData(pose_doc)
    /\ now = 0
    /\ lookup = NoLookup
    /\ RenderIdle /\ ExportIdle /\ MapperIdle /\ StageIdle

\* one frame of the dylan preview/export loop, as far as the lookup goes
QueryViseme(t) ==
    /\ character = "dylan"
    /\ now' = t
    /\ lookup' = [op |-> "viseme", viseme |-> DylanGetCurrentViseme(animation_data, t)]
    /\ UNCHANGED <<character, animation_data, pose_doc, pose_data>>
    /\ UNCHANGED <<renderVars, exportVars, mapperVars, stageVars>>

\* one frame of the bear loop: get_current_viseme then draw_frame
BearDrawFrame(t) ==
    /\ character = "bear"
    /\ now' = t
    /\ LET viseme == BearGetCurrentViseme(animation_data, t)
           brow == GetCurrentBrow(pose_data, t)
           emotion == GetCurrentEmotion(pose_data, t)
       IN lookup' = [op |-> "draw", viseme |-> viseme,
                     brow |-> BearBrowLayer(brow), emotion |-> emotion,
                     mouth |-> BearMouthLayer(viseme, emotion)]
    /\ UNCHANGED <<character, animation_data, pose_doc, pose_data>>
    /\ UNCHANGED <<renderVars, exportVars, mapperVars, stageVars>>

NextLookup ==
    \/ \E t \in 0..(MaxTime + 1) : QueryViseme(t)
    \/ \E t \in 0..(MaxTime + 1) : BearDrawFrame(t)

SpecLookup == InitLookup /\ [][NextLookup]_vars

(***************************************************************************)
(* C1: the track lookup returns the value of the first event in track      *)
(* order whose half-open interval [start_time, end_time) contains t, and   *)
(* neutral.png when none does; at a time that is one event's end and the   *)
(* next event's start, the next event is selected.                         *)
(***************************************************************************)
RECURSIVE FirstHalfOpen(_, _, _, _)
FirstHalfOpen(starts, ends, i, t) ==
    IF i > Len(starts) THEN 0
    ELSE IF starts[i] <= t /\ t < ends[i] THEN i
         ELSE FirstHalfOpen(starts, ends, i + 1, t)

C1_HalfOpenFirstMatch ==
    /\ lookup.op = "viseme" =>
          LET k == FirstHalfOpen([i \in DOMAIN animation_data |-> animation_data[i].start_time],
                                 [i \in DOMAIN animation_data |-> animation_data[i].end_time],
                                 1, now)
          IN lookup.viseme = IF k = 0 THEN "neutral.png" ELSE animation_data[k].viseme
    /\ lookup.op = "draw" =>
          LET k == FirstHalfOpen([i \in DOMAIN pose_data |-> pose_data[i].pose_start_time],
                                 [i \in DOMAIN pose_data |-> pose_data[i].pose_end_time],
                                 1, now)
          IN lookup.brow = IF k = 0 THEN "neutral.png" ELSE Basename(pose_data[k].pose_image)

(***************************************************************************)
(* C2: in the bear compositor, when a non-default viseme is active the     *)
(* mouth layer is the viseme image, never the emotion image; when no       *)
(* viseme or only the neutral viseme is active the mouth layer is the      *)
(* emotion image.                                                          *)
(***************************************************************************)
C2_VisemeOverridesEmotion ==
    lookup.op = "draw" =>
        IF lookup.viseme \notin {"None", "neutral.png"}
        THEN lookup.mouth = [layer |-> "viseme", image |-> lookup.viseme]
        ELSE lookup.mouth = [layer |-> "emotion", image |-> lookup.emotion]


(***************************************************************************)
(* The dylan compositor: blink state, viseme morphing, one rendered frame  *)
(***************************************************************************)
\* FPS, the frame rate main() exports with
FPS == 60

\* one second in ticks: a tenth of a 60 fps frame is one tick
TicksPerSecond == 10 * FPS

\* BLINK_DURATION = 0.15 s, in ticks
BLINK_DURATION == 90

\* the default of the constructor's morph_duration = 0.1 s, in ticks
DefaultMorphDuration == 60

\* outcomes of random.uniform(*BLINK_INTERVAL), BLINK_INTERVAL = (2, 6) seconds
BlinkDraws == {2 * TicksPerSecond, 3 * TicksPerSecond}

\* self._blink_thresholds, the thresholds in hundredths
BlinkThresholds ==
    << <<15, "half">>, <<30, "third">>, <<45, "closed">>, <<60, "closed">>,
       <<75, "third">>, <<90, "half">>, <<100, "open">> >>

\* file names of _load_assets
DylanVisemeFiles ==
    {"ee.png", "bmp.png", "o.png", "qw.png", "shch.png", "r.png", "aei.png",
     "th.png", "fv.png", "l.png", "cdgknstxyz.png", "neutral.png"}

DylanBlinkFiles == {"open.png", "half.png", "third.png", "closed.png"}

\* BlinkState.__init__ with the first draw of the random interval
NewBlinkState(draw) ==
    [is_blinking |-> FALSE, blink_start |-> 0, next_blink |-> draw,
     current_frame |-> "open"]

\* the for/else over the thresholds: relative_time < threshold, with
\* relative_time = blink_time / blink_duration; "end" is the else branch
RECURSIVE BlinkFrame(_, _)
BlinkFrame(blink_time, k) ==
    IF k > Len(BlinkThresholds) THEN "end"
    ELSE IF blink_time * 100 < BlinkThresholds[k][1] * BLINK_DURATION
         THEN BlinkThresholds[k][2]
         ELSE BlinkFrame(blink_time, k + 1)

\* a mutant of BlinkUpdate: the end of a blink leaves current_frame as it was
BlinkUpdateKeepsFrame(b, t, draw) ==
    LET b1 == IF ~b.is_blinking /\ t >= b.next_blink
              THEN [b EXCEPT !.is_blinking = TRUE, !.blink_start = t]
              ELSE b
        frame == BlinkFrame(t - b1.blink_start, 1)
    IN IF b1.is_blinking
       THEN IF frame # "end"
            THEN [b1 EXCEPT !.current_frame = frame]
            ELSE [b1 EXCEPT !.is_blinking = FALSE, !.next_blink = t + draw]
       ELSE b1

\* BlinkState.update; draw is the random interval used if the blink ends
BlinkUpdate(b, t, draw) ==
    LET b1 == IF ~b.is_blinking /\ t >= b.next_blink
              THEN [b EXCEPT !.is_blinking = TRUE, !.blink_start = t]
              ELSE b
        frame == BlinkFrame(t - b1.blink_start, 1)
    IN IF b1.is_blinking
       THEN IF frame # "end"
            THEN [b1 EXCEPT !.current_frame = frame]
            ELSE [b1 EXCEPT !.is_blinking = FALSE, !.current_frame = "open",
                            !.next_blink = t + draw]
       ELSE b1

\* whether that update consumes a random draw
BlinkDrawsNow(b, t) ==
    LET start == IF ~b.is_blinking /\ t >= b.next_blink THEN t ELSE b.blink_start
    IN (b.is_blinking \/ t >= b.next_blink) /\ BlinkFrame(t - start, 1) = "end"

\* the file name update returns
BlinkFile(b) == <<b.current_frame, ".png">>

FullViseme(v) == [kind |-> "full", image |-> v]

\* _blend_surfaces(prev, cur, blend_factor), blend_factor = num / den
BlendViseme(prev, cur, num, den) ==
    [kind |-> "blend", prev |-> prev, image |-> cur, num |-> num, den |-> den]

\* MouthAnimation._get_morphed_viseme on the state m = [previous_viseme,
\* previous_viseme_time]: the surface returned and the state left behind
GetMorphedViseme(m, morph, current_viseme, current_time) ==
    IF current_viseme # m.previous_viseme
    THEN IF current_time - m.previous_viseme_time < morph
         THEN [mouth |-> BlendViseme(m.previous_viseme, current_viseme,
                                     current_time - m.previous_viseme_time, morph),
               state |-> m]
         ELSE [mouth |-> FullViseme(current_viseme),
               state |-> [previous_viseme |-> current_viseme,
                          previous_viseme_time |-> current_time]]
    ELSE [mouth |-> FullViseme(current_viseme), state |-> m]

\* the mouth part of MouthAnimation.draw_frame
DrawMouth(m, morph, viseme_filename, current_time) ==
    IF viseme_filename \in DylanVisemeFiles
    THEN GetMorphedViseme(m, morph, viseme_filename, current_time)
    ELSE [mouth |-> [kind |-> "none"], state |-> m]

\* the blink overlay of draw_frame
DrawBlink(blink_filename) ==
    IF blink_filename[1] \in {"open", "half", "third", "closed"}
    THEN blink_filename ELSE <<"none">>

\* current_time = i / fps, in ticks (fps divides TicksPerSecond)
FrameTime(i, f) == (i * TicksPerSecond) \div f

\* the state __init__ leaves for morphing
NewMorphState == [previous_viseme |-> "neutral.png", previous_viseme_time |-> 0]

(***************************************************************************)
(* Two runs of one session.  Run 1 renders the frames 0, 1, 2, ... in      *)
(* order, as export_video does; run 2 renders any non-decreasing sequence  *)
(* of frame indices, as the preview loop does when it skips or repeats.    *)
(***************************************************************************)
MaxFrame == 8
MaxSegments == 2

\* the k-th draw of the session's random stream
SeedDraw(k) == seed[((k - 1) % Len(seed)) + 1]

\* contiguous viseme tracks from t = 0: segment values and lengths
SegmentLengths == {30, 70}

RECURSIVE TrackFrom(_, _)
TrackFrom(segs, start) ==
    IF segs = <<>> THEN <<>>
    ELSE <<[viseme |-> segs[1][1], start_time |-> start,
            end_time |-> start + segs[1][2]]>>
         \o TrackFrom(Tail(segs), start + segs[1][2])

RenderTracks ==
    {TrackFrom(segs, 0) :
        segs \in SeqsUpTo({"aei.png", "o.png"} \X SegmentLengths, MaxSegments)}

\* a track on the scale of seconds, for the one-frame-a-second session
SlowTrack ==
    <<[viseme |-> "aei.png", start_time |-> 0, end_time |-> 3 * TicksPerSecond],
      [viseme |-> "o.png", start_time |-> 3 * TicksPerSecond,
       end_time |-> 5 * TicksPerSecond]>>

NewRun(draw) ==
    [frame |-> -1, morph |-> NewMorphState, blink |-> NewBlinkState(draw),
     draws |-> 1, mouth |-> [kind |-> "none"], blink_img |-> <<"none">>,
     seen |-> "neutral.png", change_time |-> 0, before |-> "neutral.png"]

InitRender ==
    /\ character = "dylan"
    /\ \/ /\ fps = FPS
          /\ animation_data \in RenderTracks
          /\ morph_duration = DefaultMorphDuration
          /\ seed = <<2 * TicksPerSecond>>
       \/ /\ fps = 1
          /\ animation_data = SlowTrack
          /\ morph_duration \in {DefaultMorphDuration, 2 * TicksPerSecond}
          /\ seed \in [1..2 -> BlinkDraws]
    /\ pose_doc = <<>> /\ pose_data = <<>> /\ now = 0 /\ lookup = NoLookup
    /\ inst = [r \in 1..2 |-> NewRun(seed[1])]
    /\ ExportIdle /\ MapperIdle /\ StageIdle

\* one iteration of the frame loop of run r, for frame index i:
\* get_current_viseme, blink_state.update, draw_frame
RenderFrame(r, i) ==
    /\ LET t == FrameTime(i, fps)
           me == inst[r]
           viseme == DylanGetCurrentViseme(animation_data, t)
           drew == BlinkDrawsNow(me.blink, t)
           blink == BlinkUpdate(me.blink, t, SeedDraw(me.draws + 1))
           drawn == DrawMouth(me.morph, morph_duration, viseme, t)
           changed == viseme # me.seen
       IN inst' = [inst EXCEPT ![r] =
                     [frame |-> i, morph |-> drawn.state, blink |-> blink,
                      draws |-> IF drew THEN me.draws + 1 ELSE me.draws,
                      mouth |-> drawn.mouth, blink_img |-> DrawBlink(BlinkFile(blink)),
                      seen |-> viseme,
                      change_time |-> IF changed THEN t ELSE me.change_time,
                      before |-> IF changed THEN me.seen ELSE me.before]]
    /\ UNCHANGED <<fps, morph_duration, seed>>
    /\ UNCHANGED <<lookupVars, exportVars, mapperVars, stageVars>>

\* the next frame of the in-order run
RenderNextFrame ==
    /\ inst[1].frame < MaxFrame
    /\ RenderFrame(1, inst[1].frame + 1)

\* a later frame, or the same frame again, of the other run
RenderLaterFrame(i) ==
    /\ i >= inst[2].frame
    /\ RenderFrame(2, i)

NextRender ==
    \/ RenderNextFrame
    \/ \E i \in 0..MaxFrame : RenderLaterFrame(i)

SpecRender == InitRender /\ [][NextRender]_vars

(***************************************************************************)
(* C3: the blend is between the viseme active immediately before the      *)
(* switch and the current viseme, with factor (time since the active       *)
(* viseme changed) / morph_duration: 0 at the frame where the viseme       *)
(* changes, and no blending once morph_duration has elapsed since the      *)
(* change.  Stated on the in-order run, where the frame at which the       *)
(* viseme changes is the first frame that shows the new viseme.            *)
(***************************************************************************)
C3_BlendFromChangeInstant ==
    inst[1].frame >= 0 =>
        LET me == inst[1]
            elapsed == FrameTime(me.frame, fps) - me.change_time
        IN IF me.seen # me.before /\ elapsed < morph_duration
           THEN me.mouth = BlendViseme(me.before, me.seen, elapsed, morph_duration)
           ELSE me.mouth = FullViseme(me.seen)

(***************************************************************************)
(* C6: the layer selection of frame i (mouth image or blend, blink image)  *)
(* is the same after any two histories of previously rendered frames.      *)
(***************************************************************************)
C6_SelectionIndependentOfHistory ==
    (inst[1].frame >= 0 /\ inst[1].frame = inst[2].frame) =>
        /\ inst[1].mouth = inst[2].mouth
        /\ inst[1].blink_img = inst[2].blink_img


(***************************************************************************)
(* Video export of the dylan compositor: export_video (sequential) and     *)
(* export_video_threaded (chunks rendered by worker threads, frames saved  *)
(* to numbered files, the video assembled from the sorted file names).     *)
(***************************************************************************)
MaxThreads == 3

\* the width of the index in f"frame_{i:010d}.png"
FrameNameWidth == 10

\* the decimal digits of i, most significant first
RECURSIVE Digits(_)
Digits(i) == IF i < 10 THEN <<i>> ELSE Digits(i \div 10) \o <<i % 10>>

RECURSIVE ZeroPad(_, _)
ZeroPad(digits, width) ==
    IF Len(digits) >= width THEN digits ELSE ZeroPad(<<0>> \o digits, width)

\* a mutant of FrameName: the index is written without zero padding
FrameNameUnpadded(i) == Digits(i)

\* the file name of frame i, as the digit string between "frame_" and ".png"
FrameName(i) == ZeroPad(Digits(i), FrameNameWidth)

\* string order of two names
RECURSIVE NameLess(_, _)
NameLess(a, b) ==
    IF a = <<>> THEN b # <<>>
    ELSE IF b = <<>> THEN FALSE
    ELSE IF a[1] # b[1] THEN a[1] < b[1]
    ELSE NameLess(Tail(a), Tail(b))

\* sorted(temp_dir.glob("frame_*.png"))
RECURSIVE SortedNames(_)
SortedNames(names) ==
    IF names = {} THEN <<>>
    ELSE LET least == CHOOSE n \in names : \A o \in names \ {n} : NameLess(n, o)
         IN <<least>> \o SortedNames(names \ {least})

\* duration = audio_length if audio_length > 0 else max(end_time of the track)
ExportDuration ==
    IF audio_length > 0 THEN audio_length
    ELSE CHOOSE d \in {animation_data[k].end_time : k \in DOMAIN animation_data} :
            \A k \in DOMAIN animation_data : animation_data[k].end_time <= d

\* frame_count = int(duration * fps)
FrameCount == (ExportDuration * fps) \div TicksPerSecond

\* a mutant of ChunkSize: the division rounds down
ChunkSizeFloor == FrameCount \div num_threads

\* chunk_size and chunks[i], for thread ids 0 .. num_threads - 1
ChunkSize == (FrameCount + num_threads - 1) \div num_threads

Min(a, b) == IF a <= b THEN a ELSE b

Chunk(i) == [start |-> i * ChunkSize, end |-> Min((i + 1) * ChunkSize, FrameCount)]

\* the frames export_video writes from frame i on, given the instance's morph
\* and blink state (k random draws made so far)
RECURSIVE SequentialFrames(_, _, _, _)
SequentialFrames(i, m, b, k) ==
    IF i >= FrameCount THEN <<>>
    ELSE LET t == FrameTime(i, fps)
             viseme == DylanGetCurrentViseme(animation_data, t)
             drew == BlinkDrawsNow(b, t)
             blink == BlinkUpdate(b, t, SeedDraw(k + 1))
             drawn == DrawMouth(m, morph_duration, viseme, t)
         IN <<[index |-> i, mouth |-> drawn.mouth,
               blink |-> DrawBlink(BlinkFile(blink))]>>
            \o SequentialFrames(i + 1, drawn.state, blink, IF drew THEN k + 1 ELSE k)

\* the mouth part of process_chunk, on the thread-local morph state
ChunkDrawMouth(m, morph, viseme, current_time) ==
    IF viseme \in DylanVisemeFiles
    THEN IF viseme # m.previous_viseme
         THEN IF current_time - m.previous_viseme_time < morph
              THEN [mouth |-> BlendViseme(m.previous_viseme, viseme,
                                          current_time - m.previous_viseme_time, morph),
                    state |-> m]
              ELSE [mouth |-> FullViseme(viseme),
                    state |-> [previous_viseme |-> viseme,
                               previous_viseme_time |-> current_time]]
         ELSE [mouth |-> FullViseme(viseme), state |-> m]
    ELSE [mouth |-> [kind |-> "none"], state |-> m]

\* the thread-local morph state process_chunk starts from
ChunkMorphState == [previous_viseme |-> "neutral.png", previous_viseme_time |-> 0]

\* the warm-up loop of process_chunk: blink updates at the simulated times
\* of frames i, i + step, ... below start_idx (one draw value for the loop)
RECURSIVE WarmUp(_, _, _, _, _)
WarmUp(b, i, start_idx, step, draw) ==
    IF i >= start_idx THEN b
    ELSE WarmUp(BlinkUpdate(b, FrameTime(i, fps), draw), i + step, start_idx, step, draw)

\* max(1, fps // 10)
WarmUpStep == IF fps \div 10 >= 1 THEN fps \div 10 ELSE 1

ThreadIds == 0..(num_threads - 1)

\* nothing written and nothing reported yet
NoOutput ==
    [output |-> "none", temp_video |-> FALSE, said_success |-> FALSE,
     error |-> FALSE, mux_status |-> 0]

\* sessions of the export: the 60 fps session of main(), and sessions of
\* one and of two frames a second
ExportTracks ==
    {TrackFrom(<<<<"aei.png", 70>>, <<"o.png", 30>>>>, 0),
     TrackFrom(<<<<"o.png", 30>>, <<"aei.png", 70>>>>, 0)}

\* the audio of a 60 fps session: none for the track that starts with
\* aei.png (ten frames), 0.2 s for the other (twelve frames)
ExportAudio(track) == IF track[1].viseme = "aei.png" THEN 0 ELSE 120

InitExport ==
    /\ character = "dylan"
    /\ \/ /\ fps = FPS
          /\ animation_data \in ExportTracks
          /\ audio_length = ExportAudio(animation_data)
          /\ seed = <<2 * TicksPerSecond>>
       \/ /\ fps = 1
          /\ animation_data = SlowTrack
          /\ audio_length = 3 * TicksPerSecond
          /\ seed \in [1..1 -> BlinkDraws]
       \/ /\ fps = 2
          /\ animation_data = SlowTrack
          /\ audio_length = 0
          /\ seed \in [1..1 -> BlinkDraws]
          /\ num_threads \in 1..2
    /\ morph_duration = DefaultMorphDuration
    /\ num_threads \in 1..MaxThreads
    /\ pose_doc = <<>> /\ pose_data = <<>> /\ now = 0 /\ lookup = NoLookup
    /\ inst = <<>>
    /\ phase = "idle" /\ seq_video = <<>> /\ workers = <<>> /\ files = {}
    /\ video = <<>>
    /\ outputs = [export_video |-> NoOutput, export_video_threaded |-> NoOutput]
    /\ MapperIdle /\ StageIdle

sessionVars == <<fps, morph_duration, seed, inst, num_threads, audio_length>>

\* os.system(ffmpeg ...) returns the encoder's exit status
EncoderStatus == {0, 1}

\* the audio block of both exports: the video is renamed to <stem>_temp, the
\* encoder is run on it, the renamed file is unlinked and "Audio added
\* successfully" is printed; the encoder writes output_path only when it
\* succeeds
MuxResult(status) ==
    [output |-> IF status = 0 THEN "muxed" ELSE "none", temp_video |-> FALSE,
     said_success |-> TRUE, error |-> FALSE, mux_status |-> status]

\* export_video on a fresh instance: every frame, in order, into the video,
\* then the audio block when the session has audio
ExportVideo(status) ==
    /\ phase = "idle"
    /\ seq_video' = SequentialFrames(0, NewMorphState, NewBlinkState(seed[1]), 1)
    /\ outputs' = [outputs EXCEPT !.export_video =
                      IF audio_length > 0 THEN MuxResult(status)
                      ELSE [NoOutput EXCEPT !.output = "silent", !.said_success = TRUE]]
    /\ phase' = "sequential_done"
    /\ UNCHANGED <<workers, files, video, sessionVars, lookupVars, mapperVars, stageVars>>

\* export_video_threaded up to executor.submit of every chunk
StartThreaded ==
    /\ phase = "sequential_done"
    /\ workers' = [w \in ThreadIds |->
                     [status |-> "submitted", next |-> Chunk(w).start,
                      end |-> Chunk(w).end, morph |-> ChunkMorphState,
                      blink |-> NewBlinkState(0), processed_frames |-> 0]]
    /\ phase' = "rendering"
    /\ UNCHANGED <<outputs, seq_video, files, video, sessionVars, lookupVars, mapperVars, stageVars>>

\* process_chunk up to its frame loop: thread-local state and the warm-up
StartChunk(w, draw) ==
    /\ phase = "rendering"
    /\ workers[w].status = "submitted"
    /\ workers' = [workers EXCEPT ![w] =
                     [@ EXCEPT !.status = "running",
                               !.blink = WarmUp(NewBlinkState(draw), 0,
                                                Chunk(w).start, WarmUpStep, draw)]]
    /\ UNCHANGED <<outputs, phase, seq_video, files, video, sessionVars, lookupVars, mapperVars, stageVars>>

\* how many workers of one export may fail while building their surface
MaxChunkFaults == 1

\* process_chunk raises before its frame loop: pygame.Surface (line 465) has
\* no memory for the thread's surface (taken in the sessions whose workers
\* do not fail in the progress report)
FailChunk(w) ==
    /\ phase = "rendering"
    /\ fps \div 2 # 0
    /\ workers[w].status = "submitted"
    /\ Cardinality({v \in ThreadIds : workers[v].status = "failed"}) < MaxChunkFaults
    /\ workers' = [workers EXCEPT ![w] = [@ EXCEPT !.status = "failed"]]
    /\ UNCHANGED <<outputs, phase, seq_video, files, video, sessionVars, lookupVars, mapperVars, stageVars>>

\* one iteration of the frame loop of process_chunk: the frame is rendered
\* and saved under its name; the progress report divides by fps // 2
RenderChunkFrame(w, draw) ==
    /\ phase = "rendering"
    /\ workers[w].status = "running"
    /\ workers[w].next < workers[w].end
    /\ LET me == workers[w]
           i == me.next
           t == FrameTime(i, fps)
           viseme == DylanGetCurrentViseme(animation_data, t)
           blink == BlinkUpdate(me.blink, t, draw)
           drawn == ChunkDrawMouth(me.morph, morph_duration, viseme, t)
           frame == [index |-> i, mouth |-> drawn.mouth,
                     blink |-> DrawBlink(BlinkFile(blink))]
           name == FrameName(i)
       IN /\ files' = {f \in files : f.name # name} \cup {[name |-> name, frame |-> frame]}
          /\ workers' = [workers EXCEPT ![w] =
                           [@ EXCEPT !.next = i + 1, !.morph = drawn.state,
                                     !.blink = blink,
                                     !.processed_frames = me.processed_frames + 1,
                                     !.status = IF fps \div 2 = 0 THEN "failed"
                                                ELSE "running"]]
    /\ UNCHANGED <<outputs, phase, seq_video, video, sessionVars, lookupVars, mapperVars, stageVars>>

\* process_chunk returns processed_frames
FinishChunk(w) ==
    /\ phase = "rendering"
    /\ workers[w].status = "running"
    /\ workers[w].next >= workers[w].end
    /\ workers' = [workers EXCEPT ![w] = [@ EXCEPT !.status = "done"]]
    /\ UNCHANGED <<outputs, phase, seq_video, files, video, sessionVars, lookupVars, mapperVars, stageVars>>

\* the frames out.write receives: all of them, or, when the progress report
\* total_frames // 10 is zero, the first one before the division raises
Written(frames) ==
    IF Len(frames) = 0 \/ Len(frames) \div 10 > 0 THEN frames ELSE SubSeq(frames, 1, 1)

\* i % (total_frames // 10) raises ZeroDivisionError at the first frame
AssemblyRaises(frames) == Len(frames) > 0 /\ Len(frames) \div 10 = 0

\* after the executor block: every future has completed (a failure is only
\* printed); the frame files are sorted by name and written to the video
AssembleVideo ==
    /\ phase = "rendering"
    /\ \A w \in ThreadIds : workers[w].status \in {"done", "failed"}
    /\ LET frame_files == SortedNames({f.name : f \in files})
           frames == [k \in 1..Len(frame_files) |->
                        (CHOOSE f \in files : f.name = frame_files[k]).frame]
       IN /\ video' = Written(frames)
          /\ phase' = IF AssemblyRaises(frames) THEN "raised" ELSE "assembled"
          /\ outputs' = [outputs EXCEPT !.export_video_threaded =
                            IF ~AssemblyRaises(frames)
                            THEN [NoOutput EXCEPT !.output = "silent", !.said_success = TRUE]
                            ELSE [NoOutput EXCEPT !.output = "partial"]]
    /\ UNCHANGED <<seq_video, workers, files, sessionVars, lookupVars, mapperVars, stageVars>>

\* the audio block up to the encoder call: output_path.rename(temp_video)
StartMux ==
    /\ phase = "assembled"
    /\ audio_length > 0
    /\ outputs' = [outputs EXCEPT !.export_video_threaded.output = "none",
                                  !.export_video_threaded.temp_video = TRUE]
    /\ phase' = "muxing"
    /\ UNCHANGED <<seq_video, workers, files, video, sessionVars, lookupVars, mapperVars,
                   stageVars>>

\* the encoder returns; temp_video.unlink(); "Audio added successfully"
FinishMux(status) ==
    /\ phase = "muxing"
    /\ outputs' = [outputs EXCEPT !.export_video_threaded = MuxResult(status)]
    /\ phase' = "muxed"
    /\ UNCHANGED <<seq_video, workers, files, video, sessionVars, lookupVars, mapperVars,
                   stageVars>>

\* a mutant of RemoveTree: the directory is left as it is
RemoveTreeNothing(dir) == dir

\* shutil.rmtree(temp_dir): the directory's files after the call
RemoveTree(dir) == {}

\* the except and finally blocks: the exception is printed and re-raised,
\* the temporary directory is removed
CleanUp ==
    /\ \/ phase \in {"muxed", "raised"}
       \/ phase = "assembled" /\ audio_length = 0
    /\ files' = RemoveTree(files)
    /\ outputs' = [outputs EXCEPT !.export_video_threaded.error = (phase = "raised")]
    /\ phase' = IF phase = "raised" THEN "reraised" ELSE "returned"
    /\ UNCHANGED <<seq_video, workers, video, sessionVars, lookupVars, mapperVars, stageVars>>

NextExport ==
    \/ \E status \in EncoderStatus : ExportVideo(status)
    \/ StartMux
    \/ \E status \in EncoderStatus : FinishMux(status)
    \/ StartThreaded
    \/ \E w \in ThreadIds, draw \in BlinkDraws : StartChunk(w, draw)
    \/ \E w \in ThreadIds : FailChunk(w)
    \/ \E w \in ThreadIds, draw \in BlinkDraws : RenderChunkFrame(w, draw)
    \/ \E w \in ThreadIds : FinishChunk(w)
    \/ AssembleVideo
    \/ CleanUp

SpecExport == InitExport /\ [][NextExport]_vars

(***************************************************************************)
(* C4: the mouth layer (viseme image, or blend pair with its factor) that  *)
(* export_video_threaded selects for frame i equals the one the sequential *)
(* export_video selects for frame i.                                       *)
(***************************************************************************)
C4_ThreadedMouthEqualsSequential ==
    \A f \in files : f.frame.mouth = seq_video[f.frame.index + 1].mouth

(***************************************************************************)
(* C5: for every interleaving of the workers, the frames written to the    *)
(* video are in strictly increasing frame-index order: frame i is saved    *)
(* under the name of index i, and the video is assembled from the sorted   *)
(* names only after all workers have finished.                             *)
(***************************************************************************)
RECURSIVE DigitsValue(_)
DigitsValue(digits) ==
    IF digits = <<>> THEN 0
    ELSE 10 * DigitsValue(SubSeq(digits, 1, Len(digits) - 1)) + digits[Len(digits)]

C5_VideoInFrameIndexOrder ==
    /\ \A f \in files : DigitsValue(f.name) = f.frame.index
    /\ \A k, l \in DOMAIN video : k < l => video[k].index < video[l].index
    /\ phase \in {"assembled", "raised", "returned", "reraised"} =>
          \A w \in ThreadIds : workers[w].status \in {"done", "failed"}
    /\ phase = "assembled" =>
          /\ Len(video) = Cardinality(files)
          /\ \A f \in files : \E k \in DOMAIN video : video[k] = f.frame

\* C5 witness: a video of more than ten frames assembled from the chunks of
\* at least two workers
C5_Witness ==
    /\ phase = "assembled"
    /\ num_threads >= 2
    /\ Len(video) > 10


(***************************************************************************)
(* The phoneme mapper (5_phoneme_mapping.py) and the viseme mappers        *)
(* (viseme_mapping.py, norris_viseme_mapping.py).  Strings the code        *)
(* inspects are tuples of characters; times are rationals in lowest terms. *)
(***************************************************************************)
MaxWords == 2

RECURSIVE Gcd(_, _)
Gcd(a, b) == IF b = 0 THEN a ELSE Gcd(b, a % b)

Abs(x) == IF x < 0 THEN -x ELSE x

\* the rational n / d (d > 0) in lowest terms
Rat(n, d) ==
    LET g == Gcd(Abs(n), d)
    IN IF g = 0 THEN <<0, 1>> ELSE <<n \div g, d \div g>>

RatAdd(a, b) == Rat(a[1] * b[2] + b[1] * a[2], a[2] * b[2])
RatSub(a, b) == Rat(a[1] * b[2] - b[1] * a[2], a[2] * b[2])
RatDiv(a, n) == Rat(a[1], a[2] * n)
RatLe(a, b) == a[1] * b[2] <= b[1] * a[2]

LowerCase == <<"a", "b", "c", "d", "e", "f", "g", "h", "i", "j", "k", "l", "m", "n", "o", "p", "q", "r", "s", "t", "u", "v", "w", "x", "y", "z">>
UpperCase == <<"A", "B", "C", "D", "E", "F", "G", "H", "I", "J", "K", "L", "M", "N", "O", "P", "Q", "R", "S", "T", "U", "V", "W", "X", "Y", "Z">>

IndexIn(c, letters) ==
    IF c \in Range(letters) THEN CHOOSE k \in DOMAIN letters : letters[k] = c ELSE 0

\* str.lower / str.upper
Lower(str) ==
    [k \in DOMAIN str |->
        IF IndexIn(str[k], UpperCase) > 0 THEN LowerCase[IndexIn(str[k], UpperCase)]
        ELSE str[k]]

Upper(str) ==
    [k \in DOMAIN str |->
        IF IndexIn(str[k], LowerCase) > 0 THEN UpperCase[IndexIn(str[k], LowerCase)]
        ELSE str[k]]

RECURSIVE LStrip(_, _)
LStrip(str, chars) ==
    IF str # <<>> /\ Head(str) \in chars THEN LStrip(Tail(str), chars) ELSE str

RECURSIVE RStrip(_, _)
RStrip(str, chars) ==
    IF str # <<>> /\ str[Len(str)] \in chars
    THEN RStrip(SubSeq(str, 1, Len(str) - 1), chars) ELSE str

\* str.strip(chars)
Strip(str, chars) == RStrip(LStrip(str, chars), chars)

\* the characters of the strip call of map_words_to_phonemes
StripChars == Range(<<"(", ")", "[", "]", "0", "1", "2", "3", "4", "5", "6", "7", "8", "9", ".", ",", "!", "?", "\"", "'", " ", "\t", "\n", "\r">>)

Whitespace == {" ", "\t", "\n", "\r"}

\* word = word_entry['word'].lower().strip("()[]0123456789.,!?\"' \t\n\r").strip()
NormalizeWord(raw) == Strip(Strip(Lower(raw), StripChars), Whitespace)

StartsWith(str, prefix) ==
    Len(str) >= Len(prefix) /\ SubSeq(str, 1, Len(prefix)) = prefix

EndsWith(str, suffix) ==
    Len(str) >= Len(suffix)
    /\ SubSeq(str, Len(str) - Len(suffix) + 1, Len(str)) = suffix

\* cmu_dict.get(key): the phonemes of the item with that key, <<>> for None
DictGet(dict, key) ==
    IF \E k \in DOMAIN dict : dict[k][1] = key
    THEN dict[CHOOSE k \in DOMAIN dict : dict[k][1] = key][2]
    ELSE <<>>

\* next((v for k, v in cmu_dict.items() if k.startswith(word_upper + "(")), None)
VariantMatch(dict, word_upper) ==
    LET hits == {k \in DOMAIN dict : StartsWith(dict[k][1], word_upper \o <<"(">>)}
    IN IF hits = {} THEN <<>>
       ELSE dict[CHOOSE k \in hits : \A o \in hits : k <= o][2]

\* a mutant of LookupWord: the variant match is tried before the exact key
LookupWordVariantFirst(dict, word) ==
    LET word_upper == Upper(word)
        variant == VariantMatch(dict, word_upper)
        found == IF variant # <<>> THEN variant ELSE DictGet(dict, word_upper)
    IN IF found = <<>> /\ EndsWith(word_upper, <<"!", "!", "!">>)
       THEN [phonemes |-> DictGet(dict, RStrip(word_upper, {"!"})),
             word_upper |-> RStrip(word_upper, {"!"})]
       ELSE [phonemes |-> found, word_upper |-> word_upper]

\* the dictionary lookup of one word: exact or variant match, then the '!!!'
\* retry; [phonemes, word_upper] as they stand before the fallback
LookupWord(dict, word) ==
    LET word_upper == Upper(word)
        exact == DictGet(dict, word_upper)
        found == IF exact # <<>> THEN exact ELSE VariantMatch(dict, word_upper)
    IN IF found = <<>> /\ EndsWith(word_upper, <<"!", "!", "!">>)
       THEN [phonemes |-> DictGet(dict, RStrip(word_upper, {"!"})),
             word_upper |-> RStrip(word_upper, {"!"})]
       ELSE [phonemes |-> found, word_upper |-> word_upper]

\* the fallback phonemes of an unmatched word
FallbackPhonemes(word_upper) ==
    IF word_upper = <<"W", "E", "L", "C", "O", "M", "E">> THEN <<"W", "EH", "L", "K", "AH", "M">>
    ELSE IF word_upper = <<"T", "O">> THEN <<"T", "UW">>
    ELSE IF word_upper = <<"N", "E", "R", "V", "O", "U", "S">> THEN <<"N", "ER", "V", "AH", "S">>
    ELSE <<"AH">>

\* a mutant of PhonemeDuration: the interval is split into one part too many
PhonemeDurationOffByOne(word_duration, phonemes) ==
    IF phonemes # <<>> THEN RatDiv(word_duration, Len(phonemes) + 1) ELSE <<0, 1>>

\* phoneme_duration = word_duration / len(phonemes) if phonemes else 0
PhonemeDuration(word_duration, phonemes) ==
    IF phonemes # <<>> THEN RatDiv(word_duration, Len(phonemes)) ELSE <<0, 1>>

\* the inner loop: one event per phoneme, current_time advancing
RECURSIVE PhonemeEvents(_, _, _)
PhonemeEvents(phonemes, current_time, phoneme_duration) ==
    IF phonemes = <<>> THEN <<>>
    ELSE <<[phoneme |-> Head(phonemes), start_time |-> current_time,
            end_time |-> RatAdd(current_time, phoneme_duration)]>>
         \o PhonemeEvents(Tail(phonemes), RatAdd(current_time, phoneme_duration),
                          phoneme_duration)

\* a mutant of MapWord: an unmatched word always gets the single default phoneme
MapWordSingleFallback(dict, word_entry) ==
    LET word == NormalizeWord(word_entry.word)
        looked == LookupWord(dict, word)
        phonemes == IF looked.phonemes # <<>> THEN looked.phonemes ELSE <<"AH">>
    IN [events |-> PhonemeEvents(phonemes, word_entry.start_time,
                                 PhonemeDuration(RatSub(word_entry.end_time,
                                                        word_entry.start_time), phonemes)),
        unmatched |-> IF looked.phonemes = <<>> THEN <<word>> ELSE <<>>,
        phonemes |-> phonemes]

\* the body of the loop over word_data: the events appended to phoneme_data
\* and what is appended to unmatched_words
MapWord(dict, word_entry) ==
    LET word == NormalizeWord(word_entry.word)
        looked == LookupWord(dict, word)
        phonemes == IF looked.phonemes # <<>> THEN looked.phonemes
                    ELSE FallbackPhonemes(looked.word_upper)
    IN [events |-> PhonemeEvents(phonemes, word_entry.start_time,
                                 PhonemeDuration(RatSub(word_entry.end_time,
                                                        word_entry.start_time), phonemes)),
        unmatched |-> IF looked.phonemes = <<>> THEN <<word>> ELSE <<>>,
        phonemes |-> phonemes]

\* map_words_to_phonemes: phoneme_data and unmatched_words after the words
\* from index j on; src numbers each event with the word it was emitted for
\* and mapped lists the phonemes each word was mapped to
RECURSIVE MapWords(_, _, _)
MapWords(dict, words, j) ==
    IF j > Len(words)
    THEN [phoneme_data |-> <<>>, unmatched_words |-> <<>>, src |-> <<>>, mapped |-> <<>>]
    ELSE LET one == MapWord(dict, words[j])
             rest == MapWords(dict, words, j + 1)
         IN [phoneme_data |-> one.events \o rest.phoneme_data,
             unmatched_words |-> one.unmatched \o rest.unmatched_words,
             src |-> [k \in 1..Len(one.events) |-> j] \o rest.src,
             mapped |-> <<one.phonemes>> \o rest.mapped]

\* phoneme_to_mouth_shape of viseme_mapping.py
BearMouthShapes ==
    ("AA" :> "aei.png") @@ ("AE" :> "aei.png") @@ ("AH" :> "aei.png") @@ ("AO" :> "o.png")
    @@ ("EH" :> "aei.png") @@ ("IH" :> "aei.png") @@ ("IY" :> "ee.png") @@ ("UH" :> "o.png")
    @@ ("UW" :> "o.png") @@ ("AY" :> "aei.png") @@ ("EY" :> "ee.png") @@ ("OW" :> "o.png")
    @@ ("OY" :> "o.png") @@ ("F" :> "fv.png") @@ ("V" :> "fv.png") @@ ("B" :> "bmp.png")
    @@ ("M" :> "bmp.png") @@ ("P" :> "bmp.png") @@ ("C" :> "cdgknstxyz.png") @@ ("D" :> "cdgknstxyz.png")
    @@ ("G" :> "cdgknstxyz.png") @@ ("K" :> "cdgknstxyz.png") @@ ("N" :> "cdgknstxyz.png") @@ ("S" :> "cdgknstxyz.png")
    @@ ("T" :> "cdgknstxyz.png") @@ ("X" :> "cdgknstxyz.png") @@ ("Y" :> "cdgknstxyz.png") @@ ("Z" :> "cdgknstxyz.png")
    @@ ("L" :> "l.png") @@ ("R" :> "r.png") @@ ("W" :> "qw.png") @@ ("Q" :> "qw.png")
    @@ ("SH" :> "shch.png") @@ ("CH" :> "shch.png") @@ ("JH" :> "shch.png") @@ ("TH" :> "th.png")
    @@ ("DH" :> "th.png") @@ ("SIL" :> "aei.png")

\* phoneme_to_mouth_shape of norris_viseme_mapping.py
NorrisMouthShapes ==
    ("AA" :> "aei.png") @@ ("AE" :> "aei.png") @@ ("AH" :> "aei.png") @@ ("AO" :> "o.png")
    @@ ("EH" :> "ee.png") @@ ("IH" :> "ee.png") @@ ("IY" :> "ee.png") @@ ("UH" :> "o.png")
    @@ ("UW" :> "o.png") @@ ("AY" :> "aei.png") @@ ("EY" :> "ee.png") @@ ("OW" :> "o.png")
    @@ ("OY" :> "o.png") @@ ("F" :> "fv.png") @@ ("V" :> "fv.png") @@ ("B" :> "bmp.png")
    @@ ("M" :> "bmp.png") @@ ("P" :> "bmp.png") @@ ("C" :> "cdgknstxyz.png") @@ ("D" :> "cdgknstxyz.png")
    @@ ("G" :> "cdgknstxyz.png") @@ ("K" :> "cdgknstxyz.png") @@ ("N" :> "cdgknstxyz.png") @@ ("S" :> "cdgknstxyz.png")
    @@ ("T" :> "cdgknstxyz.png") @@ ("X" :> "cdgknstxyz.png") @@ ("Y" :> "cdgknstxyz.png") @@ ("Z" :> "cdgknstxyz.png")
    @@ ("L" :> "l.png") @@ ("R" :> "r.png") @@ ("W" :> "qw.png") @@ ("Q" :> "qw.png")
    @@ ("SH" :> "shch.png") @@ ("CH" :> "shch.png") @@ ("JH" :> "shch.png") @@ ("TH" :> "th.png")
    @@ ("DH" :> "th.png") @@ ("SIL" :> "neutral.png")

\* a mutant of MouthShapeOf: the lookup has no default
MouthShapeOfNoDefault(variant, phoneme) ==
    LET table == IF variant = "bear" THEN BearMouthShapes ELSE NorrisMouthShapes
    IN IF phoneme \in DOMAIN table THEN table[phoneme] ELSE "None"

\* phoneme_to_mouth_shape.get(phoneme, default) of the two mappers
MouthShapeOf(variant, phoneme) ==
    IF variant = "bear"
    THEN IF phoneme \in DOMAIN BearMouthShapes THEN BearMouthShapes[phoneme]
         ELSE "aei.png"
    ELSE IF phoneme \in DOMAIN NorrisMouthShapes THEN NorrisMouthShapes[phoneme]
         ELSE "neutral.png"

\* the loop of map_phonemes_to_visemes: one event appended per entry
RECURSIVE MapPhonemesToVisemes(_, _)
MapPhonemesToVisemes(variant, phonemes) ==
    IF phonemes = <<>> THEN <<>>
    ELSE LET entry == Head(phonemes)
             mouth_shape == MouthShapeOf(variant, entry.phoneme)
             rest == MapPhonemesToVisemes(variant, Tail(phonemes))
         IN IF variant = "bear"
            THEN <<[mouth_shape |-> mouth_shape, start_time |-> entry.start_time,
                    end_time |-> entry.end_time]>> \o rest
            ELSE <<[viseme |-> mouth_shape, start_time |-> entry.start_time,
                    end_time |-> entry.end_time]>> \o rest

\* create_fallback_dict
FallbackDict ==
    << <<<<"H", "E", "L", "L", "O">>, <<"HH", "AH", "L", "OW">>>>,
       <<<<"W", "O", "R", "L", "D">>, <<"W", "ER", "L", "D">>>>,
       <<<<"T", "H", "I", "S">>, <<"DH", "IH", "S">>>>,
       <<<<"I", "S">>, <<"IH", "Z">>>>,
       <<<<"A">>, <<"AH">>>>,
       <<<<"T", "E", "S", "T">>, <<"T", "EH", "S", "T">>>>,
       <<<<"T", "R", "A", "N", "S", "C", "R", "I", "P", "T">>, <<"T", "R", "AE", "N", "S", "K", "R", "IH", "P", "T">>>>,
       <<<<"F", "O", "R">>, <<"F", "AO", "R">>>>,
       <<<<"A", "N", "I", "M", "A", "T", "I", "O", "N">>, <<"AE", "N", "AH", "M", "EY", "SH", "AH", "N">>>>,
       <<<<"W", "E", "L", "C", "O", "M", "E">>, <<"W", "EH", "L", "K", "AH", "M">>>>,
       <<<<"T", "O">>, <<"T", "UW">>>>,
       <<<<"N", "E", "R", "V", "O", "U", "S">>, <<"N", "ER", "V", "AH", "S">>>> >>

\* a dictionary as load_cmu_dict reads it, with WORD(n) variant keys
CmuDict ==
    << <<<<"A">>, <<"AH">>>>,
       <<<<"A", "(", "1", ")">>, <<"EY">>>>,
       <<<<"H", "E", "L", "L", "O">>, <<"HH", "AH", "L", "OW">>>>,
       <<<<"R", "E", "A", "D", "(", "1", ")">>, <<"R", "IY", "D">>>>,
       <<<<"R", "E", "A", "D">>, <<"R", "EH", "D">>>>,
       <<<<"L", "I", "V", "E", "(", "1", ")">>, <<"L", "IH", "V">>>>,
       <<<<"L", "I", "V", "E", "(", "2", ")">>, <<"L", "AY", "V">>>> >>

\* words as the aligner spells them
RawWords ==
    {<<"H", "e", "l", "l", "o", ",">>,
     <<"t", "o">>,
     <<"x", "y", "z", "z", "y", "1", "2", "3">>,
     <<"L", "i", "v", "e">>,
     <<"r", "e", "a", "d">>,
     <<"A", ".">>}

\* word intervals, in hundredths of a second
WordSpans == {<<0, 60>>, <<60, 100>>, <<100, 100>>}

WordEntries ==
    {[word |-> w, start_time |-> Rat(sp[1], 1), end_time |-> Rat(sp[2], 1)] :
        w \in RawWords, sp \in WordSpans}

\* phoneme_data.json entries as other tools write them: silence, a stressed
\* vowel, symbols the two tables map differently
PhonemeEntries ==
    {[phoneme |-> ph, start_time |-> Rat(sp[1], 1), end_time |-> Rat(sp[2], 1)] :
        ph \in {"SIL", "AH0", "IH", "M"}, sp \in WordSpans}

\* either the phoneme mapper starts from a word track, or a viseme mapper
\* starts from a phoneme track on disk
InitMapper ==
    /\ character \in {"bear", "dylan"}
    /\ \/ /\ word_data \in SeqsUpTo(WordEntries, MaxWords)
          /\ cmu_dict \in {FallbackDict, CmuDict}
          /\ phoneme_data = <<>>
          /\ pc = "words"
       \/ /\ word_data = <<>> /\ cmu_dict = <<>>
          /\ phoneme_data \in SeqsUpTo(PhonemeEntries, MaxWords) \ {<<>>}
          /\ pc = "phonemes"
    /\ unmatched_words = <<>>
    /\ viseme_data = <<>> /\ viseme_rerun = <<>>
    /\ animation_data = <<>> /\ pose_doc = <<>> /\ pose_data = <<>>
    /\ now = 0 /\ lookup = [op |-> "map", src |-> <<>>, mapped |-> <<>>]
    /\ RenderIdle /\ ExportIdle /\ StageIdle

\* 5_phoneme_mapping.py main: map_words_to_phonemes(word_data, cmu_dict)
MapWordsToPhonemes ==
    /\ pc = "words"
    /\ LET out == MapWords(cmu_dict, word_data, 1)
       IN /\ phoneme_data' = out.phoneme_data
          /\ unmatched_words' = out.unmatched_words
          /\ lookup' = [op |-> "map", src |-> out.src, mapped |-> out.mapped]
    /\ pc' = "phonemes"
    /\ UNCHANGED <<character, animation_data, pose_doc, pose_data, now>>
    /\ UNCHANGED <<word_data, cmu_dict, viseme_data, viseme_rerun>>
    /\ UNCHANGED <<renderVars, exportVars, stageVars>>

\* the viseme mapper of the session's character, on the phoneme track
MapVisemes ==
    /\ pc = "phonemes"
    /\ viseme_data' = MapPhonemesToVisemes(character, phoneme_data)
    /\ pc' = "visemes"
    /\ UNCHANGED <<word_data, cmu_dict, phoneme_data, unmatched_words, viseme_rerun>>
    /\ UNCHANGED <<lookupVars, renderVars, exportVars, stageVars>>

\* the same mapper run again on the same phoneme track
MapVisemesAgain ==
    /\ pc = "visemes"
    /\ viseme_rerun' = MapPhonemesToVisemes(character, phoneme_data)
    /\ pc' = "rerun"
    /\ UNCHANGED <<word_data, cmu_dict, phoneme_data, unmatched_words, viseme_data>>
    /\ UNCHANGED <<lookupVars, renderVars, exportVars, stageVars>>

NextMapper == MapWordsToPhonemes \/ MapVisemes \/ MapVisemesAgain

SpecMapper == InitMapper /\ [][NextMapper]_vars


(***************************************************************************)
(* Properties of the mappers.                                              *)
(***************************************************************************)
\* the positions in phoneme_data of the events emitted for word j
WordEventIdx(j) == {k \in DOMAIN phoneme_data : lookup.src[k] = j}

\* the events of word j are n consecutive entries that split [s, e] evenly:
\* equal lengths, first starts at s, each starts where the previous ends,
\* last ends at e
EvenSplit(j, n) ==
    LET idx == WordEventIdx(j)
        s == word_data[j].start_time
        e == word_data[j].end_time
    IN /\ Cardinality(idx) = n
       /\ \E lo \in idx :
            /\ idx = lo..(lo + n - 1)
            /\ phoneme_data[lo].start_time = s
            /\ phoneme_data[lo + n - 1].end_time = e
            /\ \A k \in idx :
                 RatSub(phoneme_data[k].end_time, phoneme_data[k].start_time)
                    = RatDiv(RatSub(e, s), n)
            /\ \A k \in idx \ {lo + n - 1} :
                 phoneme_data[k + 1].start_time = phoneme_data[k].end_time

\* the phonemes of the events of word j, in track order
WordPhonemes(j) ==
    LET idx == WordEventIdx(j)
    IN IF idx = {} THEN <<>>
       ELSE LET lo == CHOOSE k \in idx : \A o \in idx : k <= o
            IN [k \in 1..Cardinality(idx) |-> phoneme_data[lo + k - 1].phoneme]

\* C7: a word with interval [s, e], s <= e, mapped to n >= 1 phonemes gets n
\* events in phoneme order, each of length (e - s)/n, the first starting at s,
\* each next one starting where the previous ends, the last ending at e.
C7_EqualContiguousPartition ==
    pc # "words" =>
        \A j \in DOMAIN word_data :
            LET n == Len(lookup.mapped[j])
            IN (n >= 1 /\ RatLe(word_data[j].start_time, word_data[j].end_time)) =>
                  /\ EvenSplit(j, n)
                  /\ WordPhonemes(j) = lookup.mapped[j]

\* HELLO over [0.0, 0.6] (times in hundredths) has been split at
\* 0.0/0.15/0.30/0.45/0.60
C7_Witness ==
    /\ pc # "words"
    /\ \E j \in DOMAIN word_data :
         /\ word_data[j].word = <<"H", "e", "l", "l", "o", ",">>
         /\ word_data[j].start_time = <<0, 1>> /\ word_data[j].end_time = <<60, 1>>
         /\ WordPhonemes(j) = <<"HH", "AH", "L", "OW">>
         /\ \E lo \in WordEventIdx(j) :
              /\ phoneme_data[lo].start_time = <<0, 1>>
              /\ phoneme_data[lo + 1].start_time = <<15, 1>>
              /\ phoneme_data[lo + 2].start_time = <<30, 1>>
              /\ phoneme_data[lo + 3].start_time = <<45, 1>>
              /\ phoneme_data[lo + 3].end_time = <<60, 1>>

\* the mouth shape of an output event of the session's viseme mapper
ShapeField(event) == IF character = "bear" THEN event.mouth_shape ELSE event.viseme

NoEntry(j) ==
    LET word_upper == Upper(NormalizeWord(word_data[j].word))
    IN \A k \in DOMAIN cmu_dict :
         /\ cmu_dict[k][1] # word_upper
         /\ ~StartsWith(cmu_dict[k][1], word_upper \o <<"(">>)

\* C9: every word with no exact and no variant entry gets exactly one fallback
\* event spanning the word's [start_time, end_time], and the remaining words
\* are still mapped.
C9_OneFallbackEventPerUnmatchedWord ==
    pc # "words" =>
        /\ \A j \in DOMAIN word_data : NoEntry(j) => EvenSplit(j, 1)
        /\ \A j \in DOMAIN word_data : WordEventIdx(j) # {}

\* the words with a pronunciation built into the mapper
BuiltInWords == {<<"W", "E", "L", "C", "O", "M", "E">>, <<"T", "O">>, <<"N", "E", "R", "V", "O", "U", "S">>}

\* C9 as the mapper has it: a word with no exact and no variant entry gets one
\* "AH" event spanning its interval, except welcome, to and nervous, whose
\* built-in pronunciations of 6, 2 and 5 phonemes are split evenly over the
\* interval; the remaining words are still mapped.
C9_FallbackForUnmatchedWord ==
    pc # "words" =>
        /\ \A j \in DOMAIN word_data :
             LET word_upper == Upper(NormalizeWord(word_data[j].word))
             IN NoEntry(j) =>
                  IF word_upper \in BuiltInWords
                  THEN /\ EvenSplit(j, CASE word_upper = <<"W", "E", "L", "C", "O", "M", "E">> -> 6
                                         [] word_upper = <<"T", "O">> -> 2
                                         [] OTHER -> 5)
                       /\ WordPhonemes(j) = FallbackPhonemes(word_upper)
                  ELSE /\ EvenSplit(j, 1)
                       /\ WordPhonemes(j) = <<"AH">>
        /\ \A j \in DOMAIN word_data : WordEventIdx(j) # {}

\* "to" and then "xyzzy123" have been mapped with a dictionary that has
\* neither: two events for the first, one for the second
C9_Witness ==
    /\ pc # "words"
    /\ Len(word_data) = 2
    /\ NoEntry(1) /\ NoEntry(2)
    /\ word_data[1].word = <<"t", "o">>
    /\ word_data[2].word = <<"x", "y", "z", "z", "y", "1", "2", "3">>
    /\ word_data[2].start_time = <<60, 1>> /\ word_data[2].end_time = <<100, 1>>
    /\ WordPhonemes(1) = <<"T", "UW">>
    /\ WordPhonemes(2) = <<"AH">>
    /\ phoneme_data[3].start_time = <<60, 1>> /\ phoneme_data[3].end_time = <<100, 1>>

\* C10: every word for which no dictionary entry was found is in the
\* unmatched-word list under the spelling it has in the word track, and the
\* events of each word are those the word gets when mapped on its own.
C10_UnmatchedListHasTrackSpelling ==
    pc # "words" =>
        /\ \A j \in DOMAIN word_data :
             NoEntry(j) => word_data[j].word \in Range(unmatched_words)
        /\ \A j \in DOMAIN word_data :
             [k \in 1..Cardinality(WordEventIdx(j)) |->
                 phoneme_data[(CHOOSE lo \in WordEventIdx(j) :
                                  \A o \in WordEventIdx(j) : lo <= o) + k - 1]]
               = MapWords(cmu_dict, <<word_data[j]>>, 1).phoneme_data


\* the dictionary keys equal to the normalized, upper-cased word j
ExactKeys(j) ==
    {k \in DOMAIN cmu_dict : cmu_dict[k][1] = Upper(NormalizeWord(word_data[j].word))}

\* the dictionary keys of the form WORD(n) for word j
VariantKeys(j) ==
    {k \in DOMAIN cmu_dict :
        StartsWith(cmu_dict[k][1], Upper(NormalizeWord(word_data[j].word)) \o <<"(">>)}

\* C11: a word is resolved by its exact key first, then by a WORD(n) key, then
\* by the fallback: with an exact entry it gets that entry's phonemes even
\* when variants exist; with variant entries only it gets a variant's phonemes
\* and is not listed as unmatched.
C11_ExactThenVariantThenFallback ==
    pc # "words" =>
        \A j \in DOMAIN word_data :
            LET word == NormalizeWord(word_data[j].word)
            IN IF ExactKeys(j) # {}
               THEN /\ \E k \in ExactKeys(j) : WordPhonemes(j) = cmu_dict[k][2]
                    /\ word \notin Range(unmatched_words)
               ELSE IF VariantKeys(j) # {}
               THEN /\ \E k \in VariantKeys(j) : WordPhonemes(j) = cmu_dict[k][2]
                    /\ word \notin Range(unmatched_words)
               ELSE /\ WordPhonemes(j) = FallbackPhonemes(Upper(word))
                    /\ word \in Range(unmatched_words)

\* "A." (exact key A beside the variant A(1)) and "Live" (variant keys only)
\* have been mapped
C11_Witness ==
    /\ pc # "words"
    /\ Len(word_data) = 2
    /\ word_data[1].word = <<"A", ".">>
    /\ word_data[2].word = <<"L", "i", "v", "e">>
    /\ ExactKeys(1) # {} /\ VariantKeys(1) # {}
    /\ ExactKeys(2) = {} /\ VariantKeys(2) # {}
    /\ WordPhonemes(1) = <<"AH">>
    /\ WordPhonemes(2) = <<"L", "IH", "V">>
    /\ unmatched_words = <<>>


\* every event of the track has start_time <= end_time and the events are in
\* non-decreasing order of start_time
TrackInOrder(track) ==
    /\ \A k \in DOMAIN track : RatLe(track[k].start_time, track[k].end_time)
    /\ \A k \in DOMAIN track :
         k < Len(track) => RatLe(track[k].start_time, track[k + 1].start_time)

\* C12: when the word track has start_time <= end_time everywhere and is
\* sorted by start_time, so have and so are the phoneme track the phoneme
\* mapper produces and the viseme track produced from it.
C12_MappersKeepTrackOrder ==
    (cmu_dict # <<>> /\ TrackInOrder(word_data)) =>
        /\ pc # "words" => TrackInOrder(phoneme_data)
        /\ pc \in {"visemes", "rerun"} => TrackInOrder(viseme_data)


(***************************************************************************)
(* save_emotion_data (6_emotion_data.py): runs of the emotion stage that   *)
(* merge their entries into one output file.  A run loads the file and     *)
(* sorts, then opens the file for writing, then dumps; the runs are        *)
(* separate processes, so these steps of different runs may interleave.    *)
(* The size of a document is its number of entries.                        *)
(***************************************************************************)
MaxRuns == 2

\* an entry as parse_transcript_with_emotions builds it
EmotionEntry(emotion, start) ==
    [pose_folder |-> "emotions", pose_image |-> emotion,
     pose_start_time |-> start, pose_end_time |-> start + 1]

\* the emotion_data of one run, in transcript order
EmotionRuns ==
    { <<EmotionEntry("emotions/smile.png", 2)>>,
      <<EmotionEntry("emotions/sad.png", 0), EmotionEntry("emotions/frown.png", 3)>>,
      <<EmotionEntry("emotions/cringe.png", 1)>> }

\* the output file before the first run: absent, or left by an earlier run
InitialFiles ==
    { [exists |-> FALSE, valid |-> FALSE, doc |-> <<>>],
      [exists |-> TRUE, valid |-> TRUE, doc |-> <<EmotionEntry("emotions/neutral.png", 1)>>] }

\* list.sort(key=...): a stable insertion of x after the entries not above it
RECURSIVE InsertByStart(_, _)
InsertByStart(sorted, x) ==
    IF sorted = <<>> THEN <<x>>
    ELSE IF Head(sorted).pose_start_time <= x.pose_start_time
    THEN <<Head(sorted)>> \o InsertByStart(Tail(sorted), x)
    ELSE <<x>> \o sorted

\* a mutant of SortByStart: the list is sorted and its last entry is lost
RECURSIVE SortByStartLossy(_)
SortByStartLossy(data) ==
    IF Len(data) <= 1 THEN <<>>
    ELSE InsertByStart(SortByStartLossy(SubSeq(data, 1, Len(data) - 1)), data[Len(data)])

\* combined_data.sort(key=lambda x: x["pose_start_time"])
RECURSIVE SortByStart(_)
SortByStart(data) ==
    IF data = <<>> THEN <<>>
    ELSE InsertByStart(SortByStart(SubSeq(data, 1, Len(data) - 1)), data[Len(data)])

\* a mutant of LoadExisting: the run starts from an empty list
LoadExistingNothing(file) == <<>>

\* existing_data after the load block of save_emotion_data
LoadExisting(file) ==
    IF file.exists /\ file.valid THEN file.doc ELSE <<>>

\* open(output_file, "w"): the file exists and is empty
OpenForWrite(file) == [exists |-> TRUE, valid |-> FALSE, doc |-> <<>>]

\* json.dump through a handle at offset 0, flushed at close: the document
\* replaces the head of the file; a longer old content leaves its tail
\* behind, which no longer parses
WriteAtStart(file, data) ==
    IF Len(data) >= Len(file.doc)
    THEN [exists |-> TRUE, valid |-> TRUE, doc |-> data]
    ELSE [exists |-> TRUE, valid |-> FALSE,
          doc |-> data \o SubSeq(file.doc, Len(data) + 1, Len(file.doc))]

RunIds == 1..MaxRuns

InitSave ==
    /\ emotion_file \in InitialFiles
    /\ runs \in [RunIds -> {[pc |-> "ready", emotion_data |-> d, existing_data |-> <<>>,
                             combined_data |-> <<>>] : d \in EmotionRuns}]
    /\ save_log = <<[op |-> "init", doc |-> emotion_file.doc]>>
    /\ character = "bear"
    /\ animation_data = <<>> /\ pose_doc = <<>> /\ pose_data = <<>>
    /\ now = 0 /\ lookup = NoLookup
    /\ RenderIdle /\ ExportIdle /\ MapperIdle /\ ScheduleIdle /\ BlinkIdle
    /\ PipelineIdle /\ ToolIdle

\* lines 57-69: load the existing entries, append the new ones, sort
LoadAndCombine(r) ==
    /\ runs[r].pc = "ready"
    /\ LET existing_data == LoadExisting(emotion_file)
       IN runs' = [runs EXCEPT ![r].pc = "combined",
                               ![r].existing_data = existing_data,
                               ![r].combined_data =
                                   SortByStart(existing_data \o runs[r].emotion_data)]
    /\ save_log' = Append(save_log, [op |-> "load", run |-> r])
    /\ UNCHANGED emotion_file
    /\ UNCHANGED <<lookupVars, renderVars, exportVars, mapperVars, scheduleVars, blinkVars,
                   pipelineVars, toolVars>>

\* line 74: open the output file for writing
OpenOutput(r) ==
    /\ runs[r].pc = "combined"
    /\ emotion_file' = OpenForWrite(emotion_file)
    /\ runs' = [runs EXCEPT ![r].pc = "opened"]
    /\ save_log' = Append(save_log, [op |-> "open", run |-> r])
    /\ UNCHANGED <<lookupVars, renderVars, exportVars, mapperVars, scheduleVars, blinkVars,
                   pipelineVars, toolVars>>

\* lines 75-76: dump the combined document and close the file
DumpCombined(r) ==
    /\ runs[r].pc = "opened"
    /\ emotion_file' = WriteAtStart(emotion_file, runs[r].combined_data)
    /\ runs' = [runs EXCEPT ![r].pc = "done"]
    /\ save_log' = Append(save_log, [op |-> "dump", run |-> r])
    /\ UNCHANGED <<lookupVars, renderVars, exportVars, mapperVars, scheduleVars, blinkVars,
                   pipelineVars, toolVars>>

NextSave ==
    \E r \in RunIds : LoadAndCombine(r) \/ OpenOutput(r) \/ DumpCombined(r)

SpecSave == InitSave /\ [][NextSave]_vars


(***************************************************************************)
(* The blink schedule computed once per render: the loop of                *)
(* render_animation_to_video (fast_animate_poses.py) and                   *)
(* generate_blink_timings (old_9_bear_animation.py).  Times are in tenths  *)
(* of a second.                                                            *)
(***************************************************************************)
MaxSeconds == 12

\* random.uniform(1, 7) / np.random.uniform(2.0, 10.0): the two ends and a
\* value between them
MinInterval(rig) == IF rig = "fast_animate_poses" THEN 10 ELSE 20
MaxInterval(rig) == IF rig = "fast_animate_poses" THEN 70 ELSE 100
IntervalDraws(rig) ==
    IF rig = "fast_animate_poses" THEN {10, 35, 70} ELSE {20, 45, 100}

\* a mutant of BlinkStart: the interval is not added to current_time
BlinkStartFromZero(current_time, interval) == interval

\* blink_start = current_time + uniform(min, max)
BlinkStart(current_time, interval) == current_time + interval

\* the window appended for a blink starting at blink_start
BlinkWindow(rig, blink_start) ==
    IF rig = "fast_animate_poses"
    THEN <<blink_start, blink_start + 2>>
    ELSE <<blink_start, blink_start + 2, blink_start + 2 + 2, blink_start + 2 + 2 + 2>>

InitSchedule ==
    /\ blink_rig \in {"fast_animate_poses", "old_9_bear_animation"}
    /\ total_duration \in {10 * d : d \in 0..MaxSeconds} \cup {5, 25}
    /\ sched_time = 0
    /\ blinks = <<>>
    /\ sched_pc = "loop"
    /\ character = "bear"
    /\ animation_data = <<>> /\ pose_doc = <<>> /\ pose_data = <<>>
    /\ now = 0 /\ lookup = NoLookup
    /\ RenderIdle /\ ExportIdle /\ MapperIdle /\ SaveIdle /\ BlinkIdle
    /\ PipelineIdle /\ ToolIdle

\* one pass of the while loop: the fast renderer leaves the loop at the
\* first blink that would end after total_duration, the bear script appends
\* every blink it draws
ScheduleBlink(interval) ==
    /\ sched_pc = "loop"
    /\ sched_time < total_duration
    /\ LET blink_start == BlinkStart(sched_time, interval)
           window == BlinkWindow(blink_rig, blink_start)
       IN IF blink_rig = "fast_animate_poses" /\ window[2] > total_duration
          THEN /\ sched_pc' = "done"
               /\ UNCHANGED <<sched_time, blinks>>
          ELSE /\ blinks' = Append(blinks, window)
               /\ sched_time' = blink_start
               /\ sched_pc' = "loop"
    /\ UNCHANGED <<blink_rig, total_duration>>
    /\ UNCHANGED <<lookupVars, renderVars, exportVars, mapperVars, saveVars, blinkVars,
                   pipelineVars, toolVars>>

\* the loop condition fails: the schedule is complete
ScheduleDone ==
    /\ sched_pc = "loop"
    /\ ~(sched_time < total_duration)
    /\ sched_pc' = "done"
    /\ UNCHANGED <<blink_rig, total_duration, sched_time, blinks>>
    /\ UNCHANGED <<lookupVars, renderVars, exportVars, mapperVars, saveVars, blinkVars,
                   pipelineVars, toolVars>>

NextSchedule ==
    \/ \E interval \in IntervalDraws(blink_rig) : ScheduleBlink(interval)
    \/ ScheduleDone

SpecSchedule == InitSchedule /\ [][NextSchedule]_vars

\* C15: the blink schedule is an ordered list of windows for every
\* total_duration and every draw of the intervals: starts strictly
\* increasing, the first at least min_interval after 0, consecutive starts
\* between min_interval and max_interval apart, no two windows overlapping.
C15_BlinkScheduleOrdered ==
    /\ blinks # <<>> => blinks[1][1] >= MinInterval(blink_rig)
    /\ \A k \in DOMAIN blinks :
         /\ blinks[k][1] < blinks[k][Len(blinks[k])]
         /\ k < Len(blinks) =>
              /\ blinks[k][1] < blinks[k + 1][1]
              /\ blinks[k + 1][1] - blinks[k][1] >= MinInterval(blink_rig)
              /\ blinks[k + 1][1] - blinks[k][1] <= MaxInterval(blink_rig)
              /\ blinks[k][Len(blinks[k])] <= blinks[k + 1][1]

\* a finished schedule of the bear script with blinks the minimum and the
\* maximum interval apart
C15_Witness ==
    /\ sched_pc = "done"
    /\ blink_rig = "old_9_bear_animation"
    /\ Len(blinks) >= 3
    /\ \E k \in DOMAIN blinks : k < Len(blinks) /\ blinks[k + 1][1] - blinks[k][1] = 20
    /\ \E k \in DOMAIN blinks : k < Len(blinks) /\ blinks[k + 1][1] - blinks[k][1] = 100

(***************************************************************************)
(* BlinkState.update of 9_dylan_norris.py (four images) and of             *)
(* 9_bear_animation.py (three images), called at non-decreasing times.     *)
(***************************************************************************)
MaxCalls == 6

\* the if/elif chain of the bear's update, as thresholds in hundredths of
\* blink_duration
BearBlinkThresholds ==
    << <<20, "half">>, <<40, "closed">>, <<60, "closed">>, <<80, "half">>,
       <<100, "open">> >>

\* the chain: blink_time < blink_duration * threshold; "end" is the else branch
RECURSIVE BearBlinkFrame(_, _)
BearBlinkFrame(blink_time, k) ==
    IF k > Len(BearBlinkThresholds) THEN "end"
    ELSE IF blink_time * 100 < BearBlinkThresholds[k][1] * BLINK_DURATION
         THEN BearBlinkThresholds[k][2]
         ELSE BearBlinkFrame(blink_time, k + 1)

\* BlinkState.update of 9_bear_animation.py
BearBlinkUpdate(b, t, draw) ==
    LET b1 == IF ~b.is_blinking /\ t >= b.next_blink
              THEN [b EXCEPT !.is_blinking = TRUE, !.blink_start = t]
              ELSE b
        frame == BearBlinkFrame(t - b1.blink_start, 1)
    IN IF b1.is_blinking
       THEN IF frame # "end"
            THEN [b1 EXCEPT !.current_frame = frame]
            ELSE [b1 EXCEPT !.is_blinking = FALSE, !.current_frame = "open",
                            !.next_blink = t + draw]
       ELSE b1

\* how far the next call is after the last one, in ticks: the same instant,
\* a frame at 60 fps, coarser frames, two seconds
CallSteps == {0, 10, 20, 50, 100, 2 * TicksPerSecond}

InitBlink ==
    /\ character \in {"dylan", "bear"}
    /\ blink_state \in {NewBlinkState(draw) : draw \in BlinkDraws}
    /\ blink_hist = <<>>
    /\ blink_calls = 0
    /\ now = 0
    /\ animation_data = <<>> /\ pose_doc = <<>> /\ pose_data = <<>>
    /\ lookup = NoLookup
    /\ RenderIdle /\ ExportIdle /\ MapperIdle /\ SaveIdle /\ ScheduleIdle
    /\ PipelineIdle /\ ToolIdle

\* one call blink_state.update(current_time); blink_hist keeps the frames
\* returned since the blink in progress (or the last one) began, a run of
\* equal frames once
CallUpdate(step, draw) ==
    /\ blink_calls < MaxCalls
    /\ LET t == now + step
           after == IF character = "dylan" THEN BlinkUpdate(blink_state, t, draw)
                    ELSE BearBlinkUpdate(blink_state, t, draw)
           begins == ~blink_state.is_blinking /\ t >= blink_state.next_blink
       IN /\ now' = t
          /\ blink_state' = after
          /\ blink_hist' =
                IF begins THEN <<after.current_frame>>
                ELSE IF blink_hist # <<>> /\ blink_hist[Len(blink_hist)] = after.current_frame
                THEN blink_hist
                ELSE Append(blink_hist, after.current_frame)
          /\ lookup' = [op |-> "update", frame |-> BlinkFile(after)]
    /\ blink_calls' = blink_calls + 1
    /\ UNCHANGED <<character, animation_data, pose_doc, pose_data>>
    /\ UNCHANGED <<renderVars, exportVars, mapperVars, saveVars, scheduleVars,
                   pipelineVars, toolVars>>

NextBlink == \E step \in CallSteps, draw \in BlinkDraws : CallUpdate(step, draw)

SpecBlink == InitBlink /\ [][NextBlink]_vars

\* a is b with some elements left out
RECURSIVE IsSubsequence(_, _)
IsSubsequence(a, b) ==
    IF a = <<>> THEN TRUE
    ELSE IF b = <<>> THEN FALSE
    ELSE IF Head(a) = Head(b) THEN IsSubsequence(Tail(a), Tail(b))
    ELSE IsSubsequence(a, Tail(b))

\* the phases of one blink, after the open frame it starts from
BlinkPhases ==
    IF character = "dylan"
    THEN <<"half", "third", "closed", "third", "half", "open">>
    ELSE <<"half", "closed", "half", "open">>

\* C16: update, called at non-decreasing times, returns the open frame
\* whenever no blink is in progress, and within one blink the frames it
\* returns move forward through open, half, (third,) closed, (third,) half,
\* open: phases may be skipped, none comes back out of order.
C16_BlinkPhasesForwardOnly ==
    blink_calls > 0 =>
        /\ ~blink_state.is_blinking => lookup.frame = <<"open", ".png">>
        /\ lookup.frame = BlinkFile(blink_state)
        /\ IsSubsequence(blink_hist, BlinkPhases)

\* a blink of the four-image rig has gone through half, third, closed and
\* back to open
C16_Witness ==
    /\ character = "dylan"
    /\ ~blink_state.is_blinking
    /\ blink_hist = <<"half", "third", "closed", "open">>

(***************************************************************************)
(* Properties of save_emotion_data.                                        *)
(***************************************************************************)
\* how many times x occurs in the list
RECURSIVE Count(_, _)
Count(data, x) ==
    IF data = <<>> THEN 0
    ELSE (IF Head(data) = x THEN 1 ELSE 0) + Count(Tail(data), x)

\* the two lists hold the same entries, each as many times
SameEntries(a, b) ==
    \A x \in Range(a) \cup Range(b) : Count(a, x) = Count(b, x)

\* the entries a reader finds in the file: none when the file is absent or
\* does not parse
StoredDoc ==
    IF emotion_file.exists /\ emotion_file.valid THEN emotion_file.doc ELSE <<>>

SortedByStart(doc) ==
    \A k \in DOMAIN doc :
        k < Len(doc) => doc[k].pose_start_time <= doc[k + 1].pose_start_time

\* the position of an operation of run r in the log, 0 when it has not happened
LogPos(op, r) ==
    IF \E k \in DOMAIN save_log : save_log[k] = [op |-> op, run |-> r]
    THEN CHOOSE k \in DOMAIN save_log : save_log[k] = [op |-> op, run |-> r]
    ELSE 0

\* no run has started while another was between its load and its dump
SequentialRuns ==
    \A r, q \in RunIds :
        (r # q /\ LogPos("load", r) > 0 /\ LogPos("load", r) < LogPos("load", q)) =>
            (LogPos("dump", r) > 0 /\ LogPos("dump", r) < LogPos("load", q))

NoRunInProgress == \A r \in RunIds : runs[r].pc \in {"ready", "done"}

RECURSIVE EntriesOfDoneRuns(_)
EntriesOfDoneRuns(r) ==
    IF r > MaxRuns THEN <<>>
    ELSE (IF runs[r].pc = "done" THEN runs[r].emotion_data ELSE <<>>)
         \o EntriesOfDoneRuns(r + 1)

\* the entries the file had at the start and those of every finished run
AllEntries == save_log[1].doc \o EntriesOfDoneRuns(1)

\* C13: after any sequence of sequential runs the stored document is sorted
\* ascending by pose_start_time and holds the entries it had before and every
\* entry of every run, nothing dropped and nothing overwritten.
C13_SequentialRunsMergeSorted ==
    (SequentialRuns /\ NoRunInProgress) =>
        /\ (\E r \in RunIds : runs[r].pc = "done") => emotion_file.valid
        /\ SortedByStart(StoredDoc)
        /\ SameEntries(StoredDoc, AllEntries)

\* two runs, one after the other, on a file that held one entry: four
\* entries, the one starting at 0 first
C13_Witness ==
    /\ SequentialRuns
    /\ \A r \in RunIds : runs[r].pc = "done"
    /\ Len(save_log[1].doc) = 1
    /\ emotion_file.valid
    /\ Len(emotion_file.doc) >= 4
    /\ emotion_file.doc[1].pose_image = "emotions/sad.png"
    /\ emotion_file.doc[2].pose_image = "emotions/neutral.png"

\* the stored document lacks an entry of the finished run v
Lost(v) ==
    /\ runs[v].pc = "done"
    /\ \E x \in Range(runs[v].emotion_data) :
         Count(StoredDoc, x) < Count(AllEntries, x)

\* run w loaded the file before run v dumped and dumped after it
LostUpdate(v, w) ==
    /\ v # w
    /\ LogPos("load", w) > 0
    /\ LogPos("load", w) < LogPos("dump", v)
    /\ LogPos("dump", v) < LogPos("dump", w)

\* C14: save_emotion_data is not safe for concurrent writers.  Entries of a
\* finished run are missing from the stored document only after a run loaded
\* the file before another run dumped and then dumped after it; that
\* interleaving of two runs is possible and loses entries (C14_Witness).
C14_LossOnlyByInterleavedWriters ==
    (NoRunInProgress /\ \E v \in RunIds : Lost(v)) =>
        \E v, w \in RunIds : LostUpdate(v, w)

\* runs 1 and 2 interleaved; both finished; the stored document is a valid
\* document that lacks the entries of run 1
C14_Witness ==
    /\ runs[1].pc = "done" /\ runs[2].pc = "done"
    /\ LostUpdate(1, 2)
    /\ emotion_file.valid
    /\ Lost(1)
    /\ \A x \in Range(runs[1].emotion_data) : Count(emotion_file.doc, x) = 0


\* C17: every worker of export_video_threaded renders with the session's
\* blink timing, not with one it generates itself: the blink frame of frame i
\* is the one the session's own BlinkState gives, whichever worker renders it
\* and however the frames are partitioned.
C17_WorkersShareBlinkTiming ==
    \A f \in files : f.frame.blink = seq_video[f.frame.index + 1].blink


C18_WitnessRaised ==
    /\ phase = "reraised"
    /\ \E w \in ThreadIds : workers[w].status = "failed"
    /\ video # <<>>
    /\ files = {}

C19_FailedMuxIsAnError ==
    \A export \in {"export_video", "export_video_threaded"} :
        (/\ outputs[export].mux_status # 0
         /\ export = "export_video_threaded" => phase \in {"returned", "reraised"}) =>
            /\ ~outputs[export].said_success
            /\ outputs[export].error \/ outputs[export].output # "none"

(***************************************************************************)
(* run_animation_pipeline (run_animaton.py): the scripts it runs, in       *)
(* order, and the files they pass to each other.  A file is recorded by    *)
(* what wrote it last: a script of this run, "old" (it was there before    *)
(* the run began) or "none" (no such file).                                *)
(***************************************************************************)
PipelineFiles ==
    {"transcript_csv", "mp3", "wav", "transcript", "word_data", "phoneme_data",
     "emotion_data", "pose_data", "viseme_data", "video"}

\* the Word/Phoneme/Viseme tracks handed from stage to stage
InterchangeTracks == {"word_data", "phoneme_data", "viseme_data"}

AnimationScripts == {"9_dylan_norris.py", "9_steve_norris.py"}

\* line 134
AnimationScript(c) == IF c = "dylan" THEN "9_dylan_norris.py" ELSE "9_steve_norris.py"

\* the viseme-mapping scripts of the repository (norris_viseme_mapping.py
\* writes data/viseme_data.json, line 89)
VisemeScripts == {"viseme_mapping.py", "norris_viseme_mapping.py"}

\* the files of the run a script reads
Consumes(script) ==
    CASE script = "0_make_audio.py" -> {"transcript_csv"}      \* 0_make_audio.py:79-86
      [] script = "1_audio_conversion.py" -> {"mp3"}           \* --audio_dir, line 160
      [] script = "ffmpeg" -> {"mp3"}                          \* line 167
      [] script = "3_transcript-from-wav.py" -> {"wav"}        \* --audio_file, line 176
      [] script = "4_csv_to_txt.py" -> {"transcript_csv"}      \* 4_csv_to_txt.py:32
      [] script = "2_create-word-data.py" -> {"wav"}           \* --audio_file, line 187
      [] script = "5_phoneme_mapping.py" -> {"word_data"}      \* 5_phoneme_mapping.py:140
      [] script = "6_emotion_data.py" ->                       \* 6_emotion_data.py:83-85
            {"transcript", "word_data", "emotion_data"}
      [] script = "7_pose_data.py" -> {"word_data"}            \* 7_pose_data.py:64
      [] script \in AnimationScripts -> {"viseme_data", "wav"} \* 9_dylan_norris.py:201
      [] OTHER -> {}

\* the file of the run a script writes
Produces(script) ==
    CASE script = "0_make_audio.py" -> "mp3"
      [] script = "1_audio_conversion.py" -> "wav"
      [] script = "ffmpeg" -> "wav"
      [] script = "3_transcript-from-wav.py" -> "transcript"
      [] script = "4_csv_to_txt.py" -> "transcript"
      [] script = "2_create-word-data.py" -> "word_data"
      [] script = "5_phoneme_mapping.py" -> "phoneme_data"
      [] script = "6_emotion_data.py" -> "emotion_data"
      [] script = "7_pose_data.py" -> "pose_data"
      [] OTHER -> "video"

\* how a child process can end: exit status 0 with its output file written,
\* exit status 0 without it, or a non-zero exit status
Outcomes == {"wrote", "nothing", "failed"}

\* the pipeline's view of the run so far
Run == [docs |-> docs, stages |-> stages, reads |-> reads, status |-> 0]

\* subprocess.run(command, check = True): the child reads its inputs as they
\* are now and, if it gets that far, writes its output
Subprocess(r, script, outcome) ==
    [docs |-> IF outcome = "wrote" THEN [r.docs EXCEPT ![Produces(script)] = script]
              ELSE r.docs,
     stages |-> Append(r.stages, script),
     reads |-> r.reads \cup {[stage |-> script, doc |-> d, from |-> r.docs[d]] :
                                d \in Consumes(script)},
     status |-> IF outcome = "failed" THEN 1 ELSE 0]

\* run_command(command), ignore_errors = False: a non-zero exit status of the
\* child ends the pipeline with sys.exit(1)
RunCommand(r, script, outcome) ==
    Subprocess(r, script, outcome)

\* sys.exit(1)
Exit1(r) == [r EXCEPT !.status = 1]

\* path.exists()
Exists(r, file) == r.docs[file] # "none"

\* go on at `next`, or stop with exit status 1
Continue(r, next) ==
    /\ pipe_pc' = IF r.status # 0 THEN "exit1" ELSE next
    /\ docs' = r.docs
    /\ stages' = r.stages
    /\ reads' = r.reads
    /\ UNCHANGED <<lookupVars, renderVars, exportVars, mapperVars, saveVars,
                   scheduleVars, blinkVars, toolVars>>

\* ensure_directories has run: input/transcript.csv was there or was created
InitPipeline ==
    /\ character \in {"dylan", "steve"}
    /\ pipe_pc = "step1"
    /\ docs \in {d \in [PipelineFiles -> {"none", "old", "ensure_directories"}] :
                    /\ d["transcript_csv"] # "none"
                    /\ \A f \in PipelineFiles \ {"transcript_csv"} :
                          d[f] # "ensure_directories"}
    /\ stages = <<>>
    /\ reads = {}
    /\ animation_data = <<>> /\ pose_doc = <<>> /\ pose_data = <<>>
    /\ now = 0 /\ lookup = NoLookup
    /\ RenderIdle /\ ExportIdle /\ MapperIdle /\ SaveIdle /\ ScheduleIdle /\ BlinkIdle
    /\ ToolIdle

\* STEP 1, lines 142-156: make the MP3, once more if it is not there
Step1(first, second) ==
    /\ pipe_pc = "step1"
    /\ LET a == RunCommand(Run, "0_make_audio.py", first)
           b == RunCommand(a, "0_make_audio.py", second)
       IN IF a.status # 0 THEN Continue(a, "step2")
          ELSE IF ~Exists(a, "mp3")
          THEN IF b.status = 0 /\ ~Exists(b, "mp3") THEN Continue(Exit1(b), "step2")
               ELSE Continue(b, "step2")
          ELSE Continue(a, "step2")

\* STEP 2, lines 158-172: convert to WAV, by ffmpeg if the script left none;
\* CalledProcessError of subprocess.run ends the program at line 247
Step2(first, second) ==
    /\ pipe_pc = "step2"
    /\ LET a == RunCommand(Run, "1_audio_conversion.py", first)
           b == Subprocess(a, "ffmpeg", second)
       IN IF a.status # 0 THEN Continue(a, "step3")
          ELSE IF ~Exists(a, "wav")
          THEN IF b.status = 0 /\ ~Exists(b, "wav") THEN Continue(Exit1(b), "step3")
               ELSE Continue(b, "step3")
          ELSE Continue(a, "step3")

\* STEP 3, lines 174-176
Step3(outcome) ==
    /\ pipe_pc = "step3"
    /\ Continue(RunCommand(Run, "3_transcript-from-wav.py", outcome), "step4")

\* STEP 4, lines 178-183
Step4(outcome) ==
    /\ pipe_pc = "step4"
    /\ IF Exists(Run, "transcript_csv")
       THEN Continue(RunCommand(Run, "4_csv_to_txt.py", outcome), "step5")
       ELSE Continue(Run, "step5")

\* STEP 5, lines 185-199: make the word track, once more if it is not there
Step5(first, second) ==
    /\ pipe_pc = "step5"
    /\ LET a == RunCommand(Run, "2_create-word-data.py", first)
           b == RunCommand(a, "2_create-word-data.py", second)
       IN IF a.status # 0 THEN Continue(a, "step6")
          ELSE IF ~Exists(a, "word_data")
          THEN IF b.status = 0 /\ ~Exists(b, "word_data")
               THEN Continue(Exit1(b), "step6")
               ELSE Continue(b, "step6")
          ELSE Continue(a, "step6")

\* STEP 6, lines 201-203
Step6(outcome) ==
    /\ pipe_pc = "step6"
    /\ Continue(RunCommand(Run, "5_phoneme_mapping.py", outcome), "step7")

\* STEP 7, lines 205-207
Step7(outcome) ==
    /\ pipe_pc = "step7"
    /\ Continue(RunCommand(Run, "6_emotion_data.py", outcome), "step8")

\* STEP 8, lines 209-211
Step8(outcome) ==
    /\ pipe_pc = "step8"
    /\ Continue(RunCommand(Run, "7_pose_data.py", outcome), "step9")

\* lines 213-230: check the audio file, then STEP 9, the animation script
Step9(outcome) ==
    /\ pipe_pc = "step9"
    /\ IF ~Exists(Run, "wav") THEN Continue(Exit1(Run), "done")
       ELSE Continue(RunCommand(Run, AnimationScript(character), outcome), "done")

NextPipeline ==
    \/ \E first \in Outcomes, second \in Outcomes : Step1(first, second)
    \/ \E first \in Outcomes, second \in Outcomes : Step2(first, second)
    \/ \E outcome \in Outcomes : Step3(outcome)
    \/ \E outcome \in Outcomes : Step4(outcome)
    \/ \E first \in Outcomes, second \in Outcomes : Step5(first, second)
    \/ \E outcome \in Outcomes : Step6(outcome)
    \/ \E outcome \in Outcomes : Step7(outcome)
    \/ \E outcome \in Outcomes : Step8(outcome)
    \/ \E outcome \in Outcomes : Step9(outcome)

SpecPipeline == InitPipeline /\ [][NextPipeline]_vars

\* C20: the pipeline runs a viseme-mapping stage after phoneme mapping and
\* before the animation stage, and every word, phoneme or viseme track a
\* stage reads was written earlier in the same run.
C20_VisemeStageFeedsAnimation ==
    /\ \A i \in DOMAIN stages : stages[i] \in AnimationScripts =>
          \E j \in 1..(i - 1) :
              /\ stages[j] \in VisemeScripts
              /\ \E k \in 1..(j - 1) : stages[k] = "5_phoneme_mapping.py"
    /\ \A r \in reads : r.doc \in InterchangeTracks => r.from \notin {"none", "old"}

\* what does hold: the stages that run come in the order of the script, and
\* the animation stage starts only after phoneme mapping has exited with 0
PipelineOrder ==
    <<"0_make_audio.py", "0_make_audio.py", "1_audio_conversion.py", "ffmpeg",
      "3_transcript-from-wav.py", "4_csv_to_txt.py", "2_create-word-data.py",
      "2_create-word-data.py", "5_phoneme_mapping.py", "6_emotion_data.py",
      "7_pose_data.py", AnimationScript(character)>>

StagesFollowTheScript ==
    character \in {"dylan", "steve"} => IsSubsequence(stages, PipelineOrder)

\* a run on a clean tree in which every script exits with 0 and writes its
\* file: the animation script finds no viseme track
AnimationWithoutVisemes ==
    /\ pipe_pc = "done"
    /\ Len(stages) = 9
    /\ \A f \in PipelineFiles \ {"transcript_csv", "viseme_data"} :
          docs[f] \notin {"none", "old"}
    /\ [stage |-> AnimationScript(character), doc |-> "viseme_data",
        from |-> "none"] \in reads

\* the same run on a tree that holds the files of an earlier run: the
\* animation script reads the viseme track of the earlier run
AnimationOnOldVisemes ==
    /\ pipe_pc = "done"
    /\ Len(stages) = 9
    /\ [stage |-> AnimationScript(character), doc |-> "viseme_data",
        from |-> "old"] \in reads

(***************************************************************************)
(* 2_create-word-data.py: main, from loading the speech-recognition model  *)
(* to the word track on disk.  Times are rationals in hundredths of a      *)
(* second.                                                                 *)
(***************************************************************************)
MaxAsrSegments == 2
MaxAsrWords == 1

RatMul(n, a) == Rat(n * a[1], a[2])

\* the word dicts of a segment; one of them lacks its 'start' key
AsrWords ==
    {[keys |-> {"word", "start", "end"}, word |-> <<" ", "H", "i">>,
      start |-> Rat(0, 1), end |-> Rat(50, 1)],
     [keys |-> {"word", "start", "end"}, word |-> <<" ", " ">>,
      start |-> Rat(50, 1), end |-> Rat(50, 1)],
     [keys |-> {"word", "end"}, word |-> <<"y", "o", ".">>,
      start |-> Rat(0, 1), end |-> Rat(90, 1)]}

\* a segment with or without word-level timestamps
AsrSegments ==
    {[has_words |-> FALSE, words |-> <<>>]}
    \cup {[has_words |-> TRUE, words |-> ws] : ws \in SeqsUpTo(AsrWords, MaxAsrWords)}

\* result['text'].split() and result['duration'] (0: no such key)
AsrTexts == {<<>>, <<<<"H", "i">>>>, <<<<"H", "i">>, <<"Y", "o", ".">>>>}
AsrDurations == {0, 120}

\* what model.transcribe can return
AsrResults ==
    {[has_segments |-> TRUE, segments |-> segs, text |-> text, duration |-> d] :
        segs \in SeqsUpTo(AsrSegments, MaxAsrSegments), text \in AsrTexts,
        d \in AsrDurations}
    \cup {[has_segments |-> FALSE, segments |-> <<>>, text |-> text, duration |-> d] :
            text \in AsrTexts, d \in AsrDurations}

NoResult == [has_segments |-> FALSE, segments |-> <<>>, text |-> <<>>, duration |-> 0]

\* lines 9-32; the field named uppercase_word holds the lower-cased word
CleanWordData(track) ==
    [i \in DOMAIN track |->
        [word |-> Lower(Strip(track[i].word, Whitespace)),
         start_time |-> track[i].start_time,
         end_time |-> track[i].end_time]]

\* lines 83-90: the words of the segments that have a 'words' key
RECURSIVE SegmentWords(_)
SegmentWords(segs) ==
    IF segs = <<>> THEN <<>>
    ELSE (IF Head(segs).has_words
          THEN [i \in DOMAIN Head(segs).words |->
                  [word |-> Head(segs).words[i].word,
                   start_time |-> Head(segs).words[i].start,
                   end_time |-> Head(segs).words[i].end]]
          ELSE <<>>)
         \o SegmentWords(Tail(segs))

\* the loop of lines 83-90 raises (KeyError)
CollectRaises(result) ==
    \/ ~result.has_segments
    \/ \E i \in DOMAIN result.segments :
          /\ result.segments[i].has_words
          /\ \E j \in DOMAIN result.segments[i].words :
                {"word", "start", "end"} \ result.segments[i].words[j].keys # {}

\* lines 98-110: the words of the text, spread evenly over the duration
ProportionalTrack(result) ==
    LET words == result.text
        duration == IF result.duration = 0 THEN Rat(50 * Len(words), 1)
                    ELSE Rat(result.duration, 1)
        word_duration == IF words # <<>> THEN RatDiv(duration, Len(words))
                         ELSE Rat(100, 1)
    IN [i \in DOMAIN words |->
           [word |-> words[i],
            start_time |-> RatMul(i - 1, word_duration),
            end_time |-> RatMul(i, word_duration)]]

DummyTrack ==
    <<[word |-> <<"d", "u", "m", "m", "y">>, start_time |-> Rat(0, 1),
       end_time |-> Rat(100, 1)]>>

DefaultTrack ==
    <<[word |-> <<"t", "e", "s", "t">>, start_time |-> Rat(0, 1),
       end_time |-> Rat(100, 1)]>>

\* lines 81-115
CollectWordData(result) ==
    LET collected == IF CollectRaises(result) THEN ProportionalTrack(result)
                     ELSE SegmentWords(result.segments)
    IN IF collected = <<>> THEN DummyTrack ELSE collected

NoTrackFile == [written |-> FALSE, doc |-> <<>>]
TrackFile(track) == [written |-> TRUE, doc |-> track]

InitWordData ==
    /\ asr \in {[load |-> "raises", transcribe |-> "raises", result |-> NoResult],
                [load |-> "ok", transcribe |-> "raises", result |-> NoResult]}
               \cup {[load |-> "ok", transcribe |-> "ok", result |-> r] :
                       r \in AsrResults}
    /\ wd_pc = "load"
    /\ wd_track = <<>>
    /\ wd_files = [output_path |-> NoTrackFile, fallback_path |-> NoTrackFile]
    /\ wd_status = 0
    /\ CoreIdle /\ RigIdle /\ ParallelIdle /\ PoseRenderIdle /\ PoseDataIdle /\ PreviewIdle

\* lines 61-66
LoadModel ==
    /\ wd_pc = "load"
    /\ IF asr.load = "raises"
       THEN wd_pc' = "exited" /\ wd_status' = 1
       ELSE wd_pc' = "transcribe" /\ UNCHANGED wd_status
    /\ UNCHANGED <<asr, wd_track, wd_files, coreVars, rigVars, parallelVars, poseRenderVars,
                   poseDataVars, previewVars>>

\* lines 68-79
Transcribe ==
    /\ wd_pc = "transcribe"
    /\ IF asr.transcribe = "raises"
       THEN /\ wd_files' = [wd_files EXCEPT
                              !.output_path = TrackFile(CleanWordData(DefaultTrack))]
            /\ wd_pc' = "exited"
            /\ wd_status' = 1
       ELSE /\ wd_pc' = "collect"
            /\ UNCHANGED <<wd_files, wd_status>>
    /\ UNCHANGED <<asr, wd_track, coreVars, rigVars, parallelVars, poseRenderVars,
                   poseDataVars, previewVars>>

\* lines 81-119
CollectAndClean ==
    /\ wd_pc = "collect"
    /\ wd_track' = CleanWordData(CollectWordData(asr.result))
    /\ wd_pc' = "save"
    /\ UNCHANGED <<asr, wd_files, wd_status, coreVars, rigVars, parallelVars, poseRenderVars,
                   poseDataVars, previewVars>>

\* lines 121-140: write the track; if that raises, write it beside the output
SaveWordData(writable) ==
    /\ wd_pc = "save"
    /\ wd_files' = IF writable
                   THEN [wd_files EXCEPT !.output_path = TrackFile(wd_track)]
                   ELSE [wd_files EXCEPT !.fallback_path = TrackFile(wd_track)]
    /\ wd_pc' = "exited"
    /\ UNCHANGED <<asr, wd_track, wd_status, coreVars, rigVars, parallelVars, poseRenderVars,
                   poseDataVars, previewVars>>

NextWordData ==
    \/ LoadModel
    \/ Transcribe
    \/ CollectAndClean
    \/ \E writable \in BOOLEAN : SaveWordData(writable)

SpecWordData == InitWordData /\ [][NextWordData]_vars

\* the model failed, or gave no word with a timestamp
ModelFailed == asr.load = "raises" \/ asr.transcribe = "raises"
NoWordTimestamps ==
    /\ ~ModelFailed
    /\ CollectRaises(asr.result) \/ SegmentWords(asr.result.segments) = <<>>

\* C21: when the model fails or returns no word-level timestamps, the script
\* has written a non-empty word track by the time it exits, and after a
\* model failure its exit status is not 0.
C21_TrackWrittenWhenRecognitionFails ==
    (wd_pc = "exited" /\ (ModelFailed \/ NoWordTimestamps)) =>
        /\ \/ wd_files.output_path.written /\ wd_files.output_path.doc # <<>>
           \/ wd_files.fallback_path.written /\ wd_files.fallback_path.doc # <<>>
        /\ ModelFailed => wd_status # 0

\* what holds: once the model is loaded, every exit leaves a non-empty track
TrackWrittenOnceLoaded ==
    (wd_pc = "exited" /\ asr.load = "ok") =>
        \/ wd_files.output_path.written /\ wd_files.output_path.doc # <<>>
        \/ wd_files.fallback_path.written /\ wd_files.fallback_path.doc # <<>>

(***************************************************************************)
(* Loading the image assets: MouthAnimation._load_assets, load_image and   *)
(* _load_background of 9_dylan_norris.py, and the image loads at the head  *)
(* of render_animation_to_video of fast_animate_poses.py.                  *)
(***************************************************************************)
MaxBadAssets == 1

\* lines 149-162 and 171
VisemeFiles ==
    <<"ee.png", "bmp.png", "o.png", "qw.png", "shch.png", "r.png", "aei.png",
      "th.png", "fv.png", "l.png", "cdgknstxyz.png", "neutral.png">>
BlinkFiles == <<"open.png", "half.png", "third.png", "closed.png">>

\* the order in which __init__ loads: body, visemes, blink images, background
DylanLoadList ==
    <<[file |-> "body.png", how |-> "load_image"]>>
    \o [i \in DOMAIN VisemeFiles |-> [file |-> VisemeFiles[i], how |-> "load_image"]]
    \o [i \in DOMAIN BlinkFiles |-> [file |-> BlinkFiles[i], how |-> "load_image"]]
    \o <<[file |-> "background", how |-> "if_exists"]>>

\* fast_animate_poses.py lines 45-79: background, eye and pupil are loaded
\* unguarded, head and blink after an exists test that raises, the neutral
\* viseme of each pose folder if it exists
RendererLoadList ==
    <<[file |-> "background", how |-> "unguarded"],
      [file |-> "eye", how |-> "unguarded"],
      [file |-> "pupil", how |-> "unguarded"],
      [file |-> "head", how |-> "must_exist"],
      [file |-> "blink", how |-> "must_exist"],
      [file |-> "pose_1/neutral.png", how |-> "if_exists"],
      [file |-> "pose_2/neutral.png", how |-> "if_exists"]>>

LoadList(loader) == IF loader = "dylan" THEN DylanLoadList ELSE RendererLoadList

FilesOf(loader) == {LoadList(loader)[i].file : i \in DOMAIN LoadList(loader)}

\* what pygame.image.load raises for a file that is not there: pygame.error
\* in pygame 1.9, FileNotFoundError since pygame 2.0
PygameBuilds == {"pygame.error", "FileNotFoundError"}

DiskState(env, file) == IF file \in DOMAIN env.bad THEN env.bad[file] ELSE "ok"

\* pygame.image.load(path): the image, or the exception it raises
ImageLoad(env, file) ==
    CASE DiskState(env, file) = "ok" -> [raises |-> "none", kind |-> "image", label |-> file]
      [] DiskState(env, file) = "missing" ->
            [raises |-> env.build, kind |-> "none", label |-> file]
      [] OTHER -> [raises |-> "pygame.error", kind |-> "none", label |-> file]

\* _create_placeholder_image(path.name)
Placeholder(file) == [raises |-> "none", kind |-> "placeholder", label |-> file]

\* load_image, lines 208-214: only pygame.error is caught
LoadImage(env, file) ==
    IF ImageLoad(env, file).raises = "pygame.error" THEN Placeholder(file)
    ELSE ImageLoad(env, file)

\* one entry of a load list: the image, nothing (kind "none"), or an exception
LoadEntry(env, entry) ==
    CASE entry.how = "load_image" -> LoadImage(env, entry.file)
      [] entry.how = "unguarded" -> ImageLoad(env, entry.file)
      [] entry.how = "must_exist" ->
            IF DiskState(env, entry.file) = "missing"
            THEN [raises |-> "FileNotFoundError", kind |-> "none", label |-> entry.file]
            ELSE ImageLoad(env, entry.file)
      [] OTHER ->
            IF DiskState(env, entry.file) = "missing"
            THEN [raises |-> "none", kind |-> "none", label |-> entry.file]
            ELSE ImageLoad(env, entry.file)

\* at most MaxBadAssets files of the loader are missing or unreadable
BadAssets(loader) ==
    UNION {[B -> {"missing", "unreadable"}] :
             B \in {S \in SUBSET FilesOf(loader) : Cardinality(S) <= MaxBadAssets}}

RigEnvsOf(loader) ==
    {[loader |-> loader, build |-> b, background_path |-> bg, bad |-> bad] :
        b \in PygameBuilds, bg \in BOOLEAN, bad \in BadAssets(loader)}

RigEnvs == RigEnvsOf("dylan") \cup RigEnvsOf("fast_animate_poses")

InitRig ==
    /\ rig_env \in {e \in RigEnvs : e.loader = "dylan" \/ e.background_path}
    /\ rig_pc = 0
    /\ rig_images = <<>>
    /\ rig_error = "none"
    /\ CoreIdle /\ WordDataIdle /\ ParallelIdle /\ PoseRenderIdle /\ PoseDataIdle /\ PreviewIdle

\* the next entry of the load list
LoadStep(loader) ==
    /\ rig_env.loader = loader
    /\ rig_error = "none"
    /\ rig_pc < Len(LoadList(loader))
    /\ LET entry == LoadList(loader)[rig_pc + 1]
           skipped == entry.file = "background" /\ ~rig_env.background_path
           got == LoadEntry(rig_env, entry)
       IN /\ rig_error' = IF skipped THEN "none" ELSE got.raises
          /\ rig_images' =
                IF skipped \/ got.kind = "none" THEN rig_images
                ELSE (entry.file :> [kind |-> got.kind, label |-> got.label])
                     @@ rig_images
    /\ rig_pc' = rig_pc + 1
    /\ UNCHANGED <<rig_env, coreVars, wordDataVars, parallelVars, poseRenderVars,
                   poseDataVars, previewVars>>

\* fast_animate_poses.py lines 93-95: no neutral viseme was found
CheckNeutral ==
    /\ rig_env.loader = "fast_animate_poses"
    /\ rig_error = "none"
    /\ rig_pc = Len(RendererLoadList)
    /\ rig_error' = IF {"pose_1/neutral.png", "pose_2/neutral.png"} \cap DOMAIN rig_images = {}
                    THEN "FileNotFoundError" ELSE "none"
    /\ rig_pc' = rig_pc + 1
    /\ UNCHANGED <<rig_env, rig_images, coreVars, wordDataVars, parallelVars, poseRenderVars,
                   poseDataVars, previewVars>>

NextRig ==
    \/ LoadStep("dylan")
    \/ LoadStep("fast_animate_poses")
    \/ CheckNeutral

SpecRig == InitRig /\ [][NextRig]_vars

RigLoaded ==
    /\ rig_error = "none"
    /\ rig_pc = Len(LoadList(rig_env.loader))
          + (IF rig_env.loader = "dylan" THEN 0 ELSE 1)

\* the files the loader was given
ListedFiles ==
    FilesOf(rig_env.loader)
    \ (IF rig_env.background_path THEN {} ELSE {"background"})

\* C22: loading never ends with an exception because an image is missing or
\* unreadable, and once it is over every listed file has an image in the
\* rig, a placeholder labelled with the file name where the load failed.
C22_MissingAssetsBecomePlaceholders ==
    /\ rig_error = "none"
    /\ RigLoaded =>
          \A f \in ListedFiles :
              /\ f \in DOMAIN rig_images
              /\ rig_images[f].label = f
              /\ rig_images[f].kind = "placeholder" <=> DiskState(rig_env, f) # "ok"

\* what holds: a file that pygame reports with pygame.error, loaded through
\* load_image, becomes a placeholder labelled with its name
PlaceholderOnPygameError ==
    \A i \in 1..rig_pc :
        (/\ rig_env.loader = "dylan"
         /\ i <= Len(DylanLoadList)
         /\ DylanLoadList[i].how = "load_image"
         /\ ImageLoad(rig_env, DylanLoadList[i].file).raises = "pygame.error") =>
            /\ DylanLoadList[i].file \in DOMAIN rig_images
            /\ rig_images[DylanLoadList[i].file] =
                  [kind |-> "placeholder", label |-> DylanLoadList[i].file]

(***************************************************************************)
(* Frame counts and chunks of the exports                                  *)
(***************************************************************************)
\* the frames of a video are those of the indices 0 .. n - 1, in order
HasFrames(frames, n) ==
    /\ Len(frames) = n
    /\ \A k \in DOMAIN frames : frames[k].index = k - 1

\* a worker failed for lack of memory, not in its own code
OutOfMemory ==
    \E w \in DOMAIN workers : workers[w].status = "failed" /\ fps \div 2 # 0

\* C23: both exports put exactly floor(D * F) frames into the video, the
\* k-th being frame k - 1 (rendered for the time (k - 1) / F), for every
\* duration, frame rate and number of threads, as long as no worker runs
\* out of memory.
C23_ExportsWriteEveryFrame ==
    /\ phase # "idle" => HasFrames(seq_video, FrameCount)
    /\ (/\ phase \in {"assembled", "muxing", "muxed", "returned", "raised", "reraised"}
        /\ ~OutOfMemory) => HasFrames(video, FrameCount)

\* what holds for the sequential export
SequentialWritesEveryFrame ==
    phase # "idle" => HasFrames(seq_video, FrameCount)

\* C24: the chunks are contiguous, pairwise disjoint ranges whose union is
\* 0 .. frame_count - 1, so every frame index belongs to exactly one worker,
\* and every frame file was written by the one worker whose chunk holds it.
C24_ChunksPartitionFrames ==
    /\ \A i \in 0..(FrameCount - 1) :
          Cardinality({w \in ThreadIds : Chunk(w).start <= i /\ i < Chunk(w).end}) = 1
    /\ \A w \in ThreadIds :
          \A i \in Chunk(w).start..(Chunk(w).end - 1) : i \in 0..(FrameCount - 1)
    /\ \A w \in ThreadIds :
          (w + 1 \in ThreadIds /\ Chunk(w + 1).start < Chunk(w + 1).end) =>
              Chunk(w).end = Chunk(w + 1).start
    /\ \A w \in DOMAIN workers :
          /\ workers[w].next = Chunk(w).start + workers[w].processed_frames
          /\ workers[w].processed_frames > 0 => workers[w].next <= Chunk(w).end
    /\ \A f \in files :
          Cardinality({w \in DOMAIN workers :
                         /\ Chunk(w).start <= f.frame.index
                         /\ f.frame.index < workers[w].next}) = 1

\* C24 witness: ten frames split among three workers (chunks of 4, 4 and 2),
\* two of which have written frames
C24_Witness ==
    /\ phase = "rendering"
    /\ num_threads = 3
    /\ FrameCount = 10
    /\ \E v, w \in DOMAIN workers :
          v # w /\ workers[v].processed_frames > 0 /\ workers[w].processed_frames > 0

\* C30: when a worker has failed the export does not return normally: a
\* video it reports holds every frame index 0 .. frame_count - 1.
C30_FailedWorkerFailsExport ==
    phase = "returned" =>
        /\ \A w \in DOMAIN workers : workers[w].status # "failed"
        /\ \A i \in 0..(FrameCount - 1) : \E k \in DOMAIN video : video[k].index = i

(***************************************************************************)
(* render_animation_parallel (old_9_bear_animation.py) and                 *)
(* render_animation_smooth (old code/smooth_animation.py): one render      *)
(* future per frame, the results saved in the order as_completed yields    *)
(* them.                                                                   *)
(***************************************************************************)
MaxParallelFrames == 4

ParallelRenderers == {"render_animation_parallel", "render_animation_smooth"}

\* every future is submitted before the saving loop starts
InitParallel ==
    /\ par_env \in {[renderer |-> r, total_frames |-> n] :
                      r \in ParallelRenderers, n \in 1..MaxParallelFrames}
    /\ par_done = {}
    /\ par_saved = <<>>
    /\ par_video = <<>>
    /\ CoreIdle /\ WordDataIdle /\ RigIdle /\ PoseRenderIdle /\ PoseDataIdle /\ PreviewIdle

FrameNumbers == 0..(par_env.total_frames - 1)

\* a worker thread of the pool finishes render_frame for frame n
FutureCompletes(n) ==
    /\ n \in FrameNumbers \ par_done
    /\ par_done' = par_done \cup {n}
    /\ UNCHANGED <<par_env, par_saved, par_video, coreVars, wordDataVars, rigVars,
                   poseRenderVars, poseDataVars, previewVars>>

\* for frame_number, future in enumerate(as_completed(futures)): the result
\* of the future is saved as frame_<frame_number>, frame_number counting the
\* futures yielded so far
SavedAsNext(saved, n) == Append(saved, n)

\* one iteration of the saving loop: as_completed yields a completed future
SaveCompleted(n) ==
    /\ n \in par_done \ Range(par_saved)
    /\ par_video = <<>>
    /\ par_saved' = SavedAsNext(par_saved, n)
    /\ UNCHANGED <<par_env, par_done, par_video, coreVars, wordDataVars, rigVars,
                   poseRenderVars, poseDataVars, previewVars>>

\* ffmpeg -i frame_%04d.png: the files in the order of their numbers
EncodeFrames ==
    /\ Len(par_saved) = par_env.total_frames
    /\ par_video = <<>>
    /\ par_video' = par_saved
    /\ UNCHANGED <<par_env, par_done, par_saved, coreVars, wordDataVars, rigVars,
                   poseRenderVars, poseDataVars, previewVars>>

NextParallel ==
    \/ \E n \in FrameNumbers : FutureCompletes(n)
    \/ \E n \in FrameNumbers : SaveCompleted(n)
    \/ EncodeFrames

SpecParallel == InitParallel /\ [][NextParallel]_vars

\* C25: for every completion order of the futures, the image saved as
\* frame_<k> is the render of frame k, and the encoded video shows the
\* frames in increasing frame-number order.
C25_FileNumberIsFrameNumber ==
    /\ \A k \in DOMAIN par_saved : par_saved[k] = k - 1
    /\ \A k, l \in DOMAIN par_video : k < l => par_video[k] < par_video[l]

\* what holds: every frame is saved once, under the rank of its completion
EveryFrameSavedOnce ==
    /\ \A k, l \in DOMAIN par_saved : k # l => par_saved[k] # par_saved[l]
    /\ Range(par_saved) \subseteq par_done
    /\ par_video # <<>> => Range(par_video) = FrameNumbers

\* the 'emotions' entries of the pose document whose window contains t
ActiveEmotions(doc, t) ==
    {i \in DOMAIN doc :
        /\ doc[i].pose_folder = "emotions"
        /\ doc[i].pose_start_time <= t /\ t <= doc[i].pose_end_time}

\* C26: in the bear compositor the emotion of a frame is the image of the
\* first 'emotions' entry of the pose document whose window contains the
\* frame's time, neutral.png when there is none, and that image is the
\* mouth layer whenever the mouth layer is not a viseme.
C26_EmotionFromPoseDocument ==
    (character = "bear" /\ lookup.op = "draw") =>
        LET hits == ActiveEmotions(pose_doc, now)
            first == CHOOSE i \in hits : \A j \in hits : i <= j
            expected == IF hits = {} THEN "neutral.png"
                        ELSE Basename(pose_doc[first].pose_image)
        IN /\ lookup.emotion = expected
           /\ lookup.mouth.layer = "emotion" => lookup.mouth.image = expected

\* what holds: the emotion of every frame is neutral.png
EmotionAlwaysNeutral ==
    (character = "bear" /\ lookup.op = "draw") => lookup.emotion = "neutral.png"

(***************************************************************************)
(* The frame loop of render_animation_to_video in fast_animate_poses.py    *)
(* and animate_poses.py, as far as the pose and the viseme folder go.      *)
(* Times are frame numbers (one frame a second).                           *)
(***************************************************************************)
MaxPoseFrames == 4
MaxPoseEntries == 2

PoseRenderers == {"fast_animate_poses", "animate_poses"}

\* the pose each renderer starts from
DefaultPose(renderer) ==
    IF renderer = "fast_animate_poses" THEN "pose_1/att1.png" ELSE "pose_1/att_1.png"

\* pose documents: each image lies in the folder its entry names
PoseKinds ==
    {[pose_image |-> "pose_1/att_1.png", pose_folder |-> "pose_1"],
     [pose_image |-> "pose_2/att_2.png", pose_folder |-> "pose_2"]}

PoseWindows == {<<0, 1>>, <<1, 2>>, <<2, 3>>, <<0, 2>>}

RenderPoseEntries ==
    {[pose_folder |-> k.pose_folder, pose_image |-> k.pose_image,
      pose_start_time |-> w[1], pose_end_time |-> w[2]] :
        k \in PoseKinds, w \in PoseWindows}

\* the folder an image lies in
FolderOfPose(image) ==
    IF image \in {k.pose_image : k \in PoseKinds}
    THEN (CHOOSE k \in PoseKinds : k.pose_image = image).pose_folder
    ELSE "pose_1"

\* the first entry whose window holds t (0: none)
RECURSIVE FirstActivePose(_, _, _)
FirstActivePose(pose_data_, i, t) ==
    IF i > Len(pose_data_) THEN 0
    ELSE IF pose_data_[i].pose_start_time <= t /\ t < pose_data_[i].pose_end_time
    THEN i
    ELSE FirstActivePose(pose_data_, i + 1, t)

\* the for loop over pose_data: a new pose replaces the last one
TrackPose(pose_data_, st, t) ==
    LET i == FirstActivePose(pose_data_, 1, t)
    IN IF i > 0 /\ pose_data_[i].pose_image # st.last_active_pose
       THEN [st EXCEPT !.last_active_pose = pose_data_[i].pose_image,
                       !.last_active_pose_folder = pose_data_[i].pose_folder]
       ELSE st

\* fast_animate_poses.py lines 131-143
FastPoseStep(pose_data_, st, t) == TrackPose(pose_data_, st, t)

\* animate_poses.py lines 99-138: the pose is set back to the default at
\* the top of every iteration, the folder only when current_time is 0.0
SlowPoseStep(pose_data_, st, t) ==
    TrackPose(pose_data_,
              [st EXCEPT !.last_active_pose = "pose_1/att_1.png",
                         !.last_active_pose_folder =
                             IF t = 0 THEN "pose_1" ELSE st.last_active_pose_folder],
              t)

InitPoseRender ==
    /\ pr_env \in {[renderer |-> r, pose_data |-> d] :
                     r \in PoseRenderers,
                     d \in SeqsUpTo(RenderPoseEntries, MaxPoseEntries)}
    /\ pr_state = [frame_number |-> 0,
                   last_active_pose |-> DefaultPose(pr_env.renderer),
                   last_active_pose_folder |-> "pose_1"]
    /\ pr_frames = <<>>
    /\ CoreIdle /\ WordDataIdle /\ RigIdle /\ ParallelIdle /\ PoseDataIdle /\ PreviewIdle

\* one iteration of the frame loop
RenderPoseFrame(renderer) ==
    /\ pr_env.renderer = renderer
    /\ pr_state.frame_number < MaxPoseFrames
    /\ LET t == pr_state.frame_number
           after == IF renderer = "fast_animate_poses"
                    THEN FastPoseStep(pr_env.pose_data, pr_state, t)
                    ELSE SlowPoseStep(pr_env.pose_data, pr_state, t)
           i == FirstActivePose(pr_env.pose_data, 1, t)
       IN /\ pr_state' = [after EXCEPT !.frame_number = t + 1]
          /\ pr_frames' = Append(pr_frames,
                [pose |-> after.last_active_pose,
                 viseme_folder |-> after.last_active_pose_folder,
                 active |-> IF i = 0 THEN "none" ELSE pr_env.pose_data[i].pose_image])
    /\ UNCHANGED <<pr_env, coreVars, wordDataVars, rigVars, parallelVars,
                   poseDataVars, previewVars>>

NextPoseRender ==
    \/ RenderPoseFrame("fast_animate_poses")
    \/ RenderPoseFrame("animate_poses")

SpecPoseRender == InitPoseRender /\ [][NextPoseRender]_vars

\* the pose activated last before frame k (the default pose if none was)
RECURSIVE LastActivated(_)
LastActivated(k) ==
    IF k = 0 THEN DefaultPose(pr_env.renderer)
    ELSE IF pr_frames[k].active # "none" THEN pr_frames[k].active
    ELSE LastActivated(k - 1)

PosePersists(k) ==
    pr_frames[k].active = "none" => pr_frames[k].pose = LastActivated(k - 1)

FolderFollowsPose(k) ==
    pr_frames[k].viseme_folder = FolderOfPose(pr_frames[k].pose)

\* C27: in both pose renderers, at a frame where no pose window holds the
\* current time the pose drawn is the pose activated last (the default pose
\* before any activation), and at every frame the viseme folder is the
\* folder of the pose drawn.
C27_LastPosePersists ==
    \A k \in DOMAIN pr_frames : PosePersists(k) /\ FolderFollowsPose(k)

\* what holds: fast_animate_poses.py keeps the pose and its folder
FastRendererKeepsPose ==
    pr_env.renderer = "fast_animate_poses" =>
        \A k \in DOMAIN pr_frames : PosePersists(k) /\ FolderFollowsPose(k)

(***************************************************************************)
(* 7_pose_data.py: parse_transcript_with_poses and save_pose_data.  The    *)
(* transcript is a tuple of characters; times are rationals in seconds.    *)
(***************************************************************************)
MaxTranscriptLen == 4
MaxTimedWords == 2

TranscriptChars == {"<", ">", "a", "\n"}

\* the end of the shortest match of <(.*?)> that starts at i (0: none); the
\* dot does not match a newline
RECURSIVE TagEnd(_, _)
TagEnd(transcript, j) ==
    IF j > Len(transcript) THEN 0
    ELSE IF transcript[j] = ">" THEN j
    ELSE IF transcript[j] = "\n" THEN 0
    ELSE TagEnd(transcript, j + 1)

\* re.finditer(pose_pattern, transcript) from index i on: the matches from
\* left to right, none overlapping; start is match.start(), 0-based
RECURSIVE FindTags(_, _)
FindTags(transcript, i) ==
    IF i > Len(transcript) THEN <<>>
    ELSE IF transcript[i] = "<" /\ TagEnd(transcript, i + 1) > 0
    THEN <<[start |-> i - 1,
            pose |-> SubSeq(transcript, i + 1, TagEnd(transcript, i + 1) - 1)]>>
         \o FindTags(transcript, TagEnd(transcript, i + 1) + 1)
    ELSE FindTags(transcript, i + 1)

RatAbs(a) == <<Abs(a[1]), a[2]>>
RatLess(a, b) == a[1] * b[2] < b[1] * a[2]

\* match.start() / len(transcript) * words_timing[-1]["end_time"]
TagPosition(start, transcript, words_timing) ==
    LET last_end == words_timing[Len(words_timing)].end_time
    IN Rat(start * last_end[1], Len(transcript) * last_end[2])

Distance(words_timing, i, position) ==
    RatAbs(RatSub(words_timing[i].start_time, position))

\* a mutant of ClosestWord: of equally close words the last one is taken
ClosestWordLast(words_timing, position) ==
    CHOOSE i \in DOMAIN words_timing :
        /\ \A j \in DOMAIN words_timing :
              RatLe(Distance(words_timing, i, position),
                    Distance(words_timing, j, position))
        /\ \A j \in DOMAIN words_timing :
              j > i => RatLess(Distance(words_timing, i, position),
                               Distance(words_timing, j, position))

\* min(words_timing, key = |start_time - position|): the first of the
\* words at the least distance
ClosestWord(words_timing, position) ==
    CHOOSE i \in DOMAIN words_timing :
        /\ \A j \in DOMAIN words_timing :
              RatLe(Distance(words_timing, i, position),
                    Distance(words_timing, j, position))
        /\ \A j \in DOMAIN words_timing :
              j < i => RatLess(Distance(words_timing, i, position),
                               Distance(words_timing, j, position))

\* f"{pose_folder}/{pose}.png"
PoseImagePath(pose_folder, pose) ==
    pose_folder \o <<"/">> \o pose \o <<".", "p", "n", "g">>

BrowsFolder == <<"b", "r", "o", "w", "s">>

\* lines 32-49: the entry of one match
PoseEntryOf(tag, transcript, words_timing) ==
    LET position == TagPosition(tag.start, transcript, words_timing)
        closest_word == words_timing[ClosestWord(words_timing, position)]
    IN [pose_folder |-> BrowsFolder,
        pose_image |-> PoseImagePath(BrowsFolder, tag.pose),
        pose_start_time |-> closest_word.start_time,
        pose_end_time |-> RatAdd(closest_word.end_time, Rat(1, 2))]

\* parse_transcript_with_poses
ParseTranscriptWithPoses(transcript, words_timing) ==
    LET tags == FindTags(transcript, 1)
    IN [k \in DOMAIN tags |-> PoseEntryOf(tags[k], transcript, words_timing)]

\* words_timing[-1] raises IndexError when a tag is found and no word is given
ParseRaises(transcript, words_timing) ==
    FindTags(transcript, 1) # <<>> /\ words_timing = <<>>

\* word entries as 2_create-word-data writes them
TimedWords ==
    {[word |-> <<"a">>, start_time |-> Rat(w[1], 1), end_time |-> Rat(w[2], 1)] :
        w \in {<<0, 1>>, <<1, 1>>, <<2, 4>>, <<4, 5>>}}

InitPoseData ==
    /\ pd_env \in {[transcript |-> tr, words_timing |-> wt] :
                     tr \in SeqsUpTo(TranscriptChars, MaxTranscriptLen),
                     wt \in SeqsUpTo(TimedWords, MaxTimedWords)}
    /\ pd_pc = "parse"
    /\ pd_pose_data = <<>>
    /\ pd_file = [written |-> FALSE, doc |-> <<>>]
    /\ CoreIdle /\ WordDataIdle /\ RigIdle /\ ParallelIdle /\ PoseRenderIdle
    /\ PreviewIdle

\* line 72
ParseTranscript ==
    /\ pd_pc = "parse"
    /\ IF ParseRaises(pd_env.transcript, pd_env.words_timing)
       THEN pd_pc' = "raised" /\ UNCHANGED pd_pose_data
       ELSE /\ pd_pc' = "save"
            /\ pd_pose_data' =
                  ParseTranscriptWithPoses(pd_env.transcript, pd_env.words_timing)
    /\ UNCHANGED <<pd_env, pd_file, coreVars, wordDataVars, rigVars, parallelVars,
                   poseRenderVars, previewVars>>

\* line 75, save_pose_data: the list is written as it is
SavePoseData ==
    /\ pd_pc = "save"
    /\ pd_file' = [written |-> TRUE, doc |-> pd_pose_data]
    /\ pd_pc' = "done"
    /\ UNCHANGED <<pd_env, pd_pose_data, coreVars, wordDataVars, rigVars, parallelVars,
                   poseRenderVars, previewVars>>

NextPoseData == ParseTranscript \/ SavePoseData

SpecPoseData == InitPoseData /\ [][NextPoseData]_vars

SortedWords(words_timing) ==
    \A i, j \in DOMAIN words_timing :
        i < j => RatLe(words_timing[i].start_time, words_timing[j].start_time)

\* the words at the least distance from a position
NearestWords(words_timing, position) ==
    {i \in DOMAIN words_timing :
        \A j \in DOMAIN words_timing :
            RatLe(Distance(words_timing, i, position), Distance(words_timing, j, position))}

\* C28: for a non-empty words_timing sorted by start_time, the pose track
\* has one entry per tag, in tag order, each with pose_start_time <=
\* pose_end_time and taken from the earliest of the words closest to the
\* tag, and the track written to the file is sorted by pose_start_time.
C28_PoseTrackSortedWithoutSort ==
    (/\ pd_pc \in {"save", "done"}
     /\ pd_env.words_timing # <<>>
     /\ SortedWords(pd_env.words_timing)) =>
        LET tags == FindTags(pd_env.transcript, 1)
            wt == pd_env.words_timing
        IN /\ Len(pd_pose_data) = Len(tags)
           /\ \A k \in DOMAIN pd_pose_data :
                 LET near == NearestWords(wt, TagPosition(tags[k].start,
                                                          pd_env.transcript, wt))
                     first == CHOOSE i \in near : \A j \in near : i <= j
                 IN /\ pd_pose_data[k].pose_image = PoseImagePath(BrowsFolder, tags[k].pose)
                    /\ pd_pose_data[k].pose_start_time = wt[first].start_time
                    /\ RatLe(pd_pose_data[k].pose_start_time,
                             pd_pose_data[k].pose_end_time)
           /\ \A k, l \in DOMAIN pd_pose_data :
                 k < l => RatLe(pd_pose_data[k].pose_start_time,
                                pd_pose_data[l].pose_start_time)
           /\ pd_pc = "done" => pd_file = [written |-> TRUE, doc |-> pd_pose_data]

\* C28 witness: two tags whose closest words differ, and the track is on disk
C28_Witness ==
    /\ pd_pc = "done"
    /\ Len(pd_env.words_timing) = 2
    /\ SortedWords(pd_env.words_timing)
    /\ Len(pd_file.doc) = 2
    /\ pd_file.doc[1].pose_start_time # pd_file.doc[2].pose_start_time

\* a tag at the same distance from two words with different start times
TagBetweenTwoWords ==
    /\ pd_pc = "done"
    /\ SortedWords(pd_env.words_timing)
    /\ \E k \in DOMAIN pd_file.doc :
          LET near == NearestWords(pd_env.words_timing,
                         TagPosition(FindTags(pd_env.transcript, 1)[k].start,
                                     pd_env.transcript, pd_env.words_timing))
          IN \E i, j \in near : pd_env.words_timing[i].start_time
                                 # pd_env.words_timing[j].start_time

(***************************************************************************)
(* MouthAnimation.preview_animation: the real-time loop with its key       *)
(* events.  pv_clock is time.time(); an event is handled at the clock      *)
(* value of the iteration that finds it in the queue, and clock.tick ends  *)
(* the iteration after one of ClockSteps.                                  *)
(***************************************************************************)
MaxPreviewFrames == 4

\* what clock.tick(FPS) lets pass: a frame at 60 fps, or a late frame
ClockSteps == {10, 60}

\* the tracks of a preview: two segments of different visemes; a track that
\* begins with aei.png comes with an audio of 100 ticks, the others with none
PreviewTracks == {t \in RenderTracks : Len(t) = 2 /\ t[1].viseme # t[2].viseme}
PreviewAudio(track) == IF track[1].viseme = "aei.png" THEN 100 ELSE 0

\* int(x) of Python for x = n / d, d > 0: the fraction is cut off
IntOf(n, d) == IF n >= 0 THEN n \div d ELSE -((-n) \div d)

\* lines 237-238 of _blend_surfaces: the alpha of surf1 and of surf2 for
\* blend_factor = num / den
BlendAlphas(num, den) ==
    [surf1 |-> IntOf(255 * (den - num), den), surf2 |-> IntOf(255 * num, den)]

InitPreview ==
    /\ pv_env \in {[track |-> t, audio_length |-> PreviewAudio(t)] : t \in PreviewTracks}
    /\ pv_clock = 0
    /\ pv_loop = [running |-> TRUE, start_time |-> 0, paused |-> FALSE,
                  pause_time |-> 0, frames |-> 0]
    /\ \E draw \in BlinkDraws :
          pv_inst = [morph |-> NewMorphState, blink |-> NewBlinkState(draw)]
    /\ pv_mouth = [kind |-> "none"]
    /\ CoreIdle /\ WordDataIdle /\ RigIdle /\ ParallelIdle /\ PoseRenderIdle
    /\ PoseDataIdle

\* QUIT, or KEYDOWN of K_ESCAPE
PreviewQuit ==
    /\ pv_loop.running
    /\ pv_loop' = [pv_loop EXCEPT !.running = FALSE]
    /\ UNCHANGED <<pv_env, pv_clock, pv_inst, pv_mouth, coreVars, wordDataVars, rigVars,
                   parallelVars, poseRenderVars, poseDataVars>>

\* KEYDOWN of K_SPACE
PreviewSpace ==
    /\ pv_loop.running
    /\ pv_loop' =
          IF ~pv_loop.paused
          THEN [pv_loop EXCEPT !.paused = TRUE, !.pause_time = pv_clock]
          ELSE [pv_loop EXCEPT !.paused = FALSE,
                               !.start_time = @ + (pv_clock - pv_loop.pause_time)]
    /\ UNCHANGED <<pv_env, pv_clock, pv_inst, pv_mouth, coreVars, wordDataVars, rigVars,
                   parallelVars, poseRenderVars, poseDataVars>>

\* KEYDOWN of K_r: start_time and blink_state are set anew, the morph
\* state is left as it is
PreviewRestart ==
    /\ pv_loop.running
    /\ pv_loop' = [pv_loop EXCEPT !.start_time = pv_clock]
    /\ \E draw \in BlinkDraws :
          pv_inst' = [pv_inst EXCEPT !.blink = NewBlinkState(draw)]
    /\ UNCHANGED <<pv_env, pv_clock, pv_mouth, coreVars, wordDataVars, rigVars,
                   parallelVars, poseRenderVars, poseDataVars>>

\* the rest of one iteration, lines 368-378: the frame if not paused, then
\* clock.tick
PreviewFrame(step) ==
    /\ pv_loop.running
    /\ pv_loop.frames < MaxPreviewFrames
    /\ LET current_time == pv_clock - pv_loop.start_time
           viseme == DylanGetCurrentViseme(pv_env.track, current_time)
           drawn == DrawMouth(pv_inst.morph, DefaultMorphDuration, viseme, current_time)
       IN IF pv_loop.paused
          THEN /\ pv_clock' = pv_clock + step
               /\ pv_loop' = [pv_loop EXCEPT !.frames = @ + 1]
               /\ UNCHANGED <<pv_inst, pv_mouth>>
          ELSE IF pv_env.audio_length # 0 /\ current_time > pv_env.audio_length
          THEN /\ pv_loop' = [pv_loop EXCEPT !.running = FALSE]
               /\ UNCHANGED <<pv_clock, pv_inst, pv_mouth>>
          ELSE /\ \E draw \in BlinkDraws :
                     pv_inst' = [morph |-> drawn.state,
                                 blink |-> BlinkUpdate(pv_inst.blink, current_time, draw)]
               /\ pv_mouth' = drawn.mouth
               /\ pv_clock' = pv_clock + step
               /\ pv_loop' = [pv_loop EXCEPT !.frames = @ + 1]
    /\ UNCHANGED <<pv_env, coreVars, wordDataVars, rigVars, parallelVars,
                   poseRenderVars, poseDataVars>>

NextPreview ==
    \/ PreviewQuit
    \/ PreviewSpace
    \/ PreviewRestart
    \/ \E step \in ClockSteps : PreviewFrame(step)

SpecPreview == InitPreview /\ [][NextPreview]_vars

\* the blend factor num / den is in [0, 1) and both alphas are in 0..255
BlendInRange(mouth) ==
    mouth.kind = "blend" =>
        /\ 0 <= mouth.num /\ mouth.num < mouth.den
        /\ BlendAlphas(mouth.num, mouth.den).surf1 \in 0..255
        /\ BlendAlphas(mouth.num, mouth.den).surf2 \in 0..255

\* C29: the blend factor given to _blend_surfaces is in [0, 1) and the
\* alphas are in 0..255 after any frames, pauses and restarts of a preview.
C29_BlendFactorInUnitInterval == BlendInRange(pv_mouth)

\* what holds in the preview: the factor is below 1, and it is in range
\* whenever the time of the frame is not before previous_viseme_time
PreviewBlendBelowOne ==
    pv_mouth.kind = "blend" =>
        /\ pv_mouth.num < pv_mouth.den
        /\ BlendAlphas(pv_mouth.num, pv_mouth.den).surf2 <= 255
        /\ pv_mouth.num >= 0 => BlendInRange(pv_mouth)

\* what holds in the exports: frames in order, and frames of a run that
\* never goes back, blend within [0, 1)
ExportBlendInRange == \A r \in DOMAIN inst : BlendInRange(inst[r].mouth)

\* a restart before a frame whose blend factor is negative
BlendAfterRestart ==
    /\ pv_mouth.kind = "blend"
    /\ pv_mouth.num < 0
    /\ pv_loop.start_time > 0
====
